---- MODULE Spec2Model ----
(***************************************************************************)
(* A model of the certificate tool: KeyVaultClient (issuance of root,      *)
(* intermediate and end-entity certificates against the Key Vault store),  *)
(* CertificateChainBuilder (assembly and structural validation of a chain) *)
(* and CertificateTool (the wrappers around both).                         *)
(*                                                                         *)
(* Text is modelled as a sequence of one-character strings, so that the    *)
(* parsing of a subject string is computed as the code computes it.  Time  *)
(* is counted in days.  A key pair is a natural number: the public key k   *)
(* is verified by, and only by, a signature made with private key k.       *)
(***************************************************************************)
EXTENDS Integers, Sequences, FiniteSets, TLC

\* ------------------------------------------------------------------ bounds

MaxCalls == 2      \* issuance calls started in one behaviour
MaxSerial == 1     \* serial numbers are drawn from 0..MaxSerial
MaxNow == 2        \* the clock runs over 0..MaxNow
MaxSupplied == 2   \* supplied intermediate (and root) PEMs per chain request
MaxChainLen == 3   \* length of a chain handed to validateCertificateChain
MaxBuilds == 2     \* chain assemblies in one behaviour

DaysPerYear == 365
DefaultRootValidityDays == 3650
DefaultIntermediateValidityDays == 1825
DefaultEndEntityValidityDays == 365
DefaultChainValidityDays == 365
ChainPathLenConstraint == 3
DefaultRootKeySize == 4096
DefaultIntermediateKeySize == 4096
DefaultEndEntityKeySize == 2048
ChainKeySize == 2048

\* ------------------------------------------------------------------- text

\* String.prototype.split with a one-character separator
RECURSIVE Split(_, _)
Split(s, sep) ==
  IF \A i \in 1..Len(s) : s[i] # sep
  THEN <<s>>
  ELSE LET k == CHOOSE i \in 1..Len(s) : s[i] = sep /\ \A j \in 1..(i - 1) : s[j] # sep
       IN  <<SubSeq(s, 1, k - 1)>> \o Split(SubSeq(s, k + 1, Len(s)), sep)

RECURSIVE TrimStart(_)
TrimStart(s) == IF s # <<>> /\ Head(s) = " " THEN TrimStart(Tail(s)) ELSE s

RECURSIVE TrimEnd(_)
TrimEnd(s) == IF s # <<>> /\ s[Len(s)] = " " THEN TrimEnd(SubSeq(s, 1, Len(s) - 1)) ELSE s

\* String.prototype.trim
Trim(s) == TrimEnd(TrimStart(s))

Lowercase ==
  << "a", "b", "c", "d", "e", "f", "g", "h", "i", "j", "k", "l", "m",
     "n", "o", "p", "q", "r", "s", "t", "u", "v", "w", "x", "y", "z" >>

Uppercase ==
  << "A", "B", "C", "D", "E", "F", "G", "H", "I", "J", "K", "L", "M",
     "N", "O", "P", "Q", "R", "S", "T", "U", "V", "W", "X", "Y", "Z" >>

\* the upper-case letter of every lower-case letter
UpperCaseOf ==
  [c \in {Lowercase[i] : i \in 1..Len(Lowercase)} |->
     Uppercase[CHOOSE i \in 1..Len(Lowercase) : Lowercase[i] = c]]

UpperChar(c) == IF c \in DOMAIN UpperCaseOf THEN UpperCaseOf[c] ELSE c

\* String.prototype.toUpperCase
ToUpperCase(s) == [i \in 1..Len(s) |-> UpperChar(s[i])]

\* String.prototype.includes for a one-character needle
Includes(s, c) == \E i \in 1..Len(s) : s[i] = c

\* ------------------------------------------------------ distinguished names

\* the attribute types parseSubject recognises, by the key in upper case
ShortNameOfKey(key) ==
  CASE key = <<"C", "N">> -> "CN"
    [] key = <<"O">> -> "O"
    [] key = <<"O", "U">> -> "OU"
    [] key = <<"C">> -> "C"
    [] key = <<"S", "T">> -> "ST"
    [] key = <<"L">> -> "L"
    [] key = <<"E">> -> "E"
    [] key = <<"E", "M", "A", "I", "L", "A", "D", "D", "R", "E", "S", "S">> -> "E"
    [] OTHER -> "none"

\* one part of the subject string: the attributes it contributes (none or one)
parseSubjectPart(part) ==
  LET kv == Split(Trim(part), "=")
      key == kv[1]
      hasValue == Len(kv) >= 2 /\ kv[2] # <<>>
      shortName == ShortNameOfKey(ToUpperCase(key))
  IN  IF key # <<>> /\ hasValue /\ shortName # "none"
      THEN <<[shortName |-> shortName, value |-> kv[2]]>>
      ELSE <<>>

RECURSIVE parseSubjectParts(_)
parseSubjectParts(parts) ==
  IF parts = <<>> THEN <<>>
  ELSE parseSubjectPart(Head(parts)) \o parseSubjectParts(Tail(parts))

\* KeyVaultClient.parseSubject
parseSubject(subject) == parseSubjectParts(Split(subject, ","))

\* the attribute name the certificate library stores for a short name
NameOfShortName(sn) ==
  CASE sn = "CN" -> "commonName"
    [] sn = "O" -> "organizationName"
    [] sn = "OU" -> "organizationalUnitName"
    [] sn = "C" -> "countryName"
    [] sn = "ST" -> "stateOrProvinceName"
    [] sn = "L" -> "localityName"
    [] sn = "E" -> "emailAddress"
    [] OTHER -> "undefined"

\* cert.setSubject / cert.setIssuer: the attributes as the certificate holds them
setAttributes(attrs) ==
  [i \in 1..Len(attrs) |->
     [name |-> NameOfShortName(attrs[i].shortName),
      shortName |-> attrs[i].shortName,
      value |-> attrs[i].value]]

\* CertificateChainBuilder.createSubject
createSubject(certificateName) ==
  <<[name |-> "commonName", shortName |-> "undefined", value |-> certificateName]>>

\* a faulty variant: only the values are compared
compareDistinguishedNamesByValue(dn1, dn2) ==
  IF Len(dn1) # Len(dn2) THEN FALSE
  ELSE \A i \in 1..Len(dn1) : ~(dn1[i].value # dn2[i].value)

\* CertificateChainBuilder.compareDistinguishedNames
compareDistinguishedNames(dn1, dn2) ==
  IF Len(dn1) # Len(dn2) THEN FALSE
  ELSE \A i \in 1..Len(dn1) : ~(dn1[i].name # dn2[i].name \/ dn1[i].value # dn2[i].value)

\* --------------------------------------------------------------- PEM text

\* forge.pki.certificateToPem / KeyVaultClient.convertToPem of certificate bytes
certificateToPem(cert) == [certificate |-> cert]

\* forge.pki.privateKeyToPem
privateKeyToPem(key) == [privateKey |-> key]

\* an absent optional string (privateKey?: string)
Undefined == [undefined |-> TRUE]

\* text that is no PEM certificate
Malformed == [malformed |-> TRUE]

IsCertificatePem(pem) == "certificate" \in DOMAIN pem
IsPrivateKeyPem(pem) == "privateKey" \in DOMAIN pem

\* ------------------------------------------------------------ certificates

\* Date.prototype.getFullYear and setFullYear on a date counted in days
getFullYear(date) == date \div DaysPerYear
setFullYear(date, year) == year * DaysPerYear + (date % DaysPerYear)

\* config.x || d for a number: an absent number is modelled as 0
OrDefault(x, d) == IF x = 0 THEN d ELSE x

\* notAfter as createRootCA, createIntermediateCA and createEndEntityCertificate set it
issuanceNotAfter(now, validityDays, defaultDays) ==
  setFullYear(now, getFullYear(now) + (OrDefault(validityDays, defaultDays) \div DaysPerYear))

\* Array.prototype.includes
ArrayIncludes(arr, x) == \E i \in 1..Len(arr) : arr[i] = x

\* a faulty variant: the root's issuer left at a fixed default name
rootIssuerDefault(config) == setAttributes(<<[shortName |-> "CN", value |-> <<"T">>]>>)

\* the issuer name createRootCA sets
rootIssuer(config) == setAttributes(parseSubject(config.subject))

\* the certificate createRootCA builds and signs
rootCertificate(config, keyPair, serial, now) ==
  [serialNumber |-> serial,
   notBefore |-> now,
   notAfter |-> issuanceNotAfter(now, config.validityDays, DefaultRootValidityDays),
   keySize |-> OrDefault(config.keySize, DefaultRootKeySize),
   subject |-> setAttributes(parseSubject(config.subject)),
   issuer |-> rootIssuer(config),
   publicKey |-> keyPair,
   extensions |->
     << [name |-> "basicConstraints", cA |-> TRUE,
         pathLenConstraint |-> OrDefault(config.pathLength, 0)],
        [name |-> "keyUsage", keyCertSign |-> TRUE, cRLSign |-> TRUE],
        [name |-> "subjectKeyIdentifier"],
        [name |-> "authorityKeyIdentifier", keyIdentifier |-> TRUE] >>,
   signedBy |-> keyPair]

\* the issuer name createIntermediateCA and createEndEntityCertificate set
issuedIssuer(config, issuerCert) == setAttributes(parseSubject(config.subject))

\* the certificate createIntermediateCA builds and signs
intermediateCertificate(config, issuerCert, issuerPrivateKey, keyPair, serial, now) ==
  [serialNumber |-> serial,
   notBefore |-> now,
   notAfter |-> issuanceNotAfter(now, config.validityDays, DefaultIntermediateValidityDays),
   keySize |-> OrDefault(config.keySize, DefaultIntermediateKeySize),
   subject |-> setAttributes(parseSubject(config.subject)),
   issuer |-> issuedIssuer(config, issuerCert),
   publicKey |-> keyPair,
   extensions |->
     << [name |-> "basicConstraints", cA |-> TRUE,
         pathLenConstraint |-> OrDefault(config.pathLength, 0)],
        [name |-> "keyUsage", keyCertSign |-> TRUE, cRLSign |-> TRUE],
        [name |-> "subjectKeyIdentifier"],
        [name |-> "authorityKeyIdentifier", keyIdentifier |-> TRUE,
         authorityCertIssuer |-> TRUE, serialNumber |-> issuerCert.serialNumber] >>,
   signedBy |-> issuerPrivateKey]

\* a faulty variant: a request for any usage sets serverAuth and clientAuth too
extKeyUsageExtensionWithTls(config) ==
  IF Len(config.extendedKeyUsage) > 0
  THEN << [name |-> "extKeyUsage",
           serverAuth |-> TRUE,
           clientAuth |-> TRUE,
           codeSigning |-> ArrayIncludes(config.extendedKeyUsage, "codeSigning"),
           emailProtection |-> ArrayIncludes(config.extendedKeyUsage, "emailProtection"),
           timeStamping |-> ArrayIncludes(config.extendedKeyUsage, "timeStamping")] >>
  ELSE <<>>

\* the extended key usage extension of an end-entity certificate, if any
extKeyUsageExtension(config) ==
  IF Len(config.extendedKeyUsage) > 0
  THEN << [name |-> "extKeyUsage",
           serverAuth |-> ArrayIncludes(config.extendedKeyUsage, "serverAuth"),
           clientAuth |-> ArrayIncludes(config.extendedKeyUsage, "clientAuth"),
           codeSigning |-> ArrayIncludes(config.extendedKeyUsage, "codeSigning"),
           emailProtection |-> ArrayIncludes(config.extendedKeyUsage, "emailProtection"),
           timeStamping |-> ArrayIncludes(config.extendedKeyUsage, "timeStamping")] >>
  ELSE <<>>

\* a faulty variant: every name is entered as a DNS name
subjectAltNameExtensionAllDns(config) ==
  IF Len(config.san) > 0
  THEN << [name |-> "subjectAltName",
           altNames |-> [i \in 1..Len(config.san) |->
                           [type |-> 2, value |-> config.san[i]]]] >>
  ELSE <<>>

\* the subject alternative name extension of an end-entity certificate, if any
subjectAltNameExtension(config) ==
  IF Len(config.san) > 0
  THEN << [name |-> "subjectAltName",
           altNames |-> [i \in 1..Len(config.san) |->
                           [type |-> IF Includes(config.san[i], "@") THEN 1 ELSE 2,
                            value |-> config.san[i]]]] >>
  ELSE <<>>

\* the certificate createEndEntityCertificate builds and signs
endEntityCertificate(config, issuerCert, issuerPrivateKey, keyPair, serial, now) ==
  [serialNumber |-> serial,
   notBefore |-> now,
   notAfter |-> issuanceNotAfter(now, config.validityDays, DefaultEndEntityValidityDays),
   keySize |-> OrDefault(config.keySize, DefaultEndEntityKeySize),
   subject |-> setAttributes(parseSubject(config.subject)),
   issuer |-> issuedIssuer(config, issuerCert),
   publicKey |-> keyPair,
   extensions |->
     << [name |-> "basicConstraints", cA |-> FALSE],
        [name |-> "keyUsage", digitalSignature |-> TRUE, keyEncipherment |-> TRUE],
        [name |-> "subjectKeyIdentifier"],
        [name |-> "authorityKeyIdentifier", keyIdentifier |-> TRUE,
         authorityCertIssuer |-> TRUE, serialNumber |-> issuerCert.serialNumber] >>
     \o extKeyUsageExtension(config) \o subjectAltNameExtension(config),
   signedBy |-> issuerPrivateKey]

\* KeyVaultClient.getThumbprint: the digest of the certificate's encoding
getThumbprint(cert) == [sha1 |-> cert]

\* forge.pki.certificateFromPem / privateKeyFromPem on text that parses
certificateFromPem(pem) == pem.certificate
privateKeyFromPem(pem) == pem.privateKey

\* -------------------------------------------------------------- the model

Procs == {1, 2}

\* certificate names in the Key Vault
Names == { <<"n", "1">>, <<"n", "2">> }

\* subject strings of issuance requests
Subjects ==
  { <<"C", "N", "=", "R">>,
    <<"c", "n", "=", "i", ",", " ", "O", "=", "x">> }

Serials == 0..MaxSerial

VARIABLES
  store,      \* Key Vault: certificate name -> the imported blob, or NoEntry
  imported,   \* history: name -> the certificate data of the last import that took effect
  pc,         \* per caller: where its call stands
  call,       \* per caller: the operation called and its config
  local,      \* per caller: the local variables of the call
  result,     \* per caller: what the call returned (or threw)
  nextKey,    \* the next key pair generateKeyPair produces
  calls,      \* issuance calls started so far
  now,        \* the clock, in days
  builds,     \* chain assemblies done so far
  chainOp,    \* the last chain operation: its input and its outcome
  fields      \* the fields of the KeyVaultClient, CertificateTool and CertificateChainBuilder

vars == <<store, imported, pc, call, local, result, nextKey, calls, now, builds, chainOp, fields>>
issuanceVars == <<store, imported, pc, call, local, result, calls, fields>>

NoEntry == [absent |-> TRUE]
NoCall == [none |-> TRUE]
NoLocal == [none |-> TRUE]
NoResult == [none |-> TRUE]
NoChainOp == [none |-> TRUE]

\* the first key pair generated in a behaviour; smaller numbers are keys made elsewhere
FirstKey == 10

\* the fields the constructors set: the two store clients and the vault configuration of
\* the KeyVaultClient; the client, the builder and the configuration of the
\* CertificateTool; the CertificateChainBuilder has none
ConstructedFields ==
  [KeyVaultClient |->
     [certificateClient |-> [object |-> "CertificateClient"],
      secretClient |-> [object |-> "SecretClient"],
      config |-> [object |-> "KeyVaultConfig"]],
   CertificateTool |->
     [keyVaultClient |-> [object |-> "KeyVaultClient"],
      chainBuilder |-> [object |-> "CertificateChainBuilder"],
      config |-> [object |-> "KeyVaultConfig"]],
   CertificateChainBuilder |-> <<>>]

\* a faulty variant: the client keeps the key of the last certificate it built in a field
retainedLastKey(f, locals) ==
  IF "certificateData" \in DOMAIN locals
  THEN [f EXCEPT !.KeyVaultClient =
          [x \in DOMAIN f.KeyVaultClient \cup {"lastPrivateKey"} |->
             IF x = "lastPrivateKey" THEN locals.certificateData.privateKey
             ELSE f.KeyVaultClient[x]]]
  ELSE f

\* the fields after a step of a call whose local variables are locals: no method assigns
\* to a field, so they are what they were
retained(f, locals) == f

Init ==
  /\ store = [n \in Names |-> NoEntry]
  /\ imported = [n \in Names |-> NoEntry]
  /\ pc = [p \in Procs |-> "idle"]
  /\ call = [p \in Procs |-> NoCall]
  /\ local = [p \in Procs |-> NoLocal]
  /\ result = [p \in Procs |-> NoResult]
  /\ nextKey = FirstKey
  /\ calls = 0
  /\ now = 0
  /\ builds = 0
  /\ chainOp = NoChainOp
  /\ fields = ConstructedFields

\* ------------------------------------------------------------ the Key Vault

\* the bytes uploadCertificate hands to importCertificate
importBlob(certificateData) ==
  [privateKey |-> certificateData.privateKey, certificate |-> certificateData.certificate]

\* a faulty variant: an import over an existing entry keeps the private key already stored
importCertificateKeepsKey(st, name, blob) ==
  [st EXCEPT ![name] = IF st[name] = NoEntry THEN blob
                       ELSE [privateKey |-> st[name].privateKey,
                             certificate |-> blob.certificate]]

\* certificateClient.importCertificate taking effect: the entry is replaced as a whole
importCertificate(st, name, blob) == [st EXCEPT ![name] = blob]

\* KeyVaultClient.extractPrivateKeyFromBundle: the key as PEM, or null
extractPrivateKeyFromBundle(bundle) ==
  IF "privateKey" \in DOMAIN bundle /\ IsPrivateKeyPem(bundle.privateKey)
  THEN privateKeyToPem(privateKeyFromPem(bundle.privateKey))
  ELSE Undefined

\* an Error object
Error(message, cause) == [name |-> "Error", message |-> message, cause |-> cause]

\* a faulty variant: uploadCertificate reports success whatever the Store answered
uploadResultAlwaysSuccess(certificateName, accepted) ==
  [success |-> TRUE, message |-> "uploaded successfully",
   certificateName |-> certificateName]

\* what uploadCertificate returns
uploadResult(certificateName, accepted) ==
  IF accepted
  THEN [success |-> TRUE, message |-> "uploaded successfully",
        certificateName |-> certificateName]
  ELSE [success |-> FALSE, message |-> "Failed to upload certificate",
        error |-> Error("importCertificate failed", "store")]

\* a faulty variant: the certificate data is returned whether or not the upload succeeded
creationResultKeepsData(config, upload, certificateData, cert) ==
  [success |-> upload.success, message |-> upload.message,
   certificateName |-> config.name,
   certificateData |-> certificateData,
   thumbprint |-> getThumbprint(cert),
   error |-> IF upload.success THEN Undefined ELSE upload.error]

\* what createRootCA, createIntermediateCA, createEndEntityCertificate return after the upload
creationResult(config, upload, certificateData, cert) ==
  IF upload.success
  THEN [success |-> TRUE, message |-> "created successfully",
        certificateName |-> config.name,
        certificateData |-> certificateData,
        thumbprint |-> getThumbprint(cert)]
  ELSE [success |-> FALSE, message |-> "Failed to upload",
        certificateName |-> config.name,
        error |-> upload.error]

Returned(r) == [returned |-> r]
Thrown(e) == [thrown |-> e]

\* a faulty variant: the catch block throws the error on to the caller
issuanceCatchRethrows(config, error) == Thrown(error)

\* the catch block of an issuance operation: the error becomes a failure result
issuanceCatch(config, error) ==
  Returned([success |-> FALSE, message |-> "Failed to create",
            certificateName |-> config.name,
            error |-> error])

\* what certificateClient.importCertificate may answer for a name: accepted, over any
\* entry already there, or refused
importCertificateReplies(st, name) == {TRUE, FALSE}

\* what certificateClient.getCertificate may answer for a name
getCertificateReplies(st, name) ==
  {[rejected |-> "StoreError"]}
    \cup (IF st[name] = NoEntry
          THEN {[rejected |-> "CertificateNotFound"]}
          ELSE {[cer |-> certificateFromPem(st[name].certificate)], [nocer |-> TRUE]})

\* what secretClient.getSecret may answer for a name: a failure, or a secret whose value is
\* the bundle with the key, a bundle without a key, text that is no bundle, or empty
getSecretReplies(st, name) ==
  {[rejected |-> "StoreError"]}
    \cup (IF st[name] = NoEntry
          THEN {[rejected |-> "SecretNotFound"]}
          ELSE {[value |-> st[name]],
                [value |-> [certificate |-> st[name].certificate]],
                [value |-> [unparsable |-> TRUE]],
                [novalue |-> TRUE]})

\* KeyVaultClient.convertToPem of the certificate bytes the store returns
convertToPem(derData) == certificateToPem(derData)

\* KeyVaultClient.getPrivateKeyFromSecret, given the store's answer
getPrivateKeyFromSecret(reply) ==
  IF "value" \in DOMAIN reply THEN extractPrivateKeyFromBundle(reply.value) ELSE Undefined

\* a faulty variant: a download without a private key fails
downloadResultOrThrow(pemCertificate, reply) ==
  IF getPrivateKeyFromSecret(reply) = Undefined
  THEN Thrown(Error("Failed to download certificate with private key", "no private key"))
  ELSE Returned([certificate |-> pemCertificate,
                 privateKey |-> getPrivateKeyFromSecret(reply)])

\* KeyVaultClient.downloadCertificateWithPrivateKey once the certificate is fetched and
\* getSecret has answered: the certificate, with the private key if one was extracted
downloadResult(pemCertificate, reply) ==
  Returned([certificate |-> pemCertificate,
            privateKey |-> getPrivateKeyFromSecret(reply)])

\* --------------------------------------------------- the issuance operations

issuanceConfig(name, subject) ==
  [name |-> name, subject |-> subject, keySize |-> 0, validityDays |-> 0,
   pathLength |-> 0, extendedKeyUsage |-> <<>>, san |-> <<>>, isCA |-> "undefined"]

issuedConfig(name, subject, issuerCA) ==
  [name |-> name, subject |-> subject, issuerCA |-> issuerCA, keySize |-> 0,
   validityDays |-> 0, pathLength |-> 0, extendedKeyUsage |-> <<>>, san |-> <<>>,
   isCA |-> "undefined"]

\* the requests of concurrent callers: any name and subject, defaults for the rest
RootRequests == {issuanceConfig(name, subject) : name \in Names, subject \in Subjects}

IssuedRequests ==
  {issuedConfig(name, subject, issuerCA) :
     name \in Names, subject \in Subjects, issuerCA \in Names}

\* createRootCA(config), config any of requests, up to its await of the import
StartRootCA(p, requests) ==
  /\ pc[p] \in {"idle", "done"}
  /\ calls < MaxCalls
  /\ \E config \in requests, serial \in Serials :
       LET cert == rootCertificate(config, nextKey, serial, now)
           certificateData == [certificate |-> certificateToPem(cert),
                               privateKey |-> privateKeyToPem(nextKey)]
       IN  /\ call' = [call EXCEPT ![p] = [op |-> "createRootCA", config |-> config]]
           /\ local' = [local EXCEPT ![p] = [cert |-> cert, certificateData |-> certificateData]]
  /\ pc' = [pc EXCEPT ![p] = "import"]
  /\ nextKey' = nextKey + 1
  /\ result' = [result EXCEPT ![p] = NoResult]
  /\ calls' = calls + 1
  /\ fields' = retained(fields, local'[p])
  /\ UNCHANGED <<store, imported, now, builds, chainOp>>

\* createIntermediateCA(config), config any of requests, up to its await of getCertificate
StartIntermediateCA(p, requests) ==
  /\ pc[p] \in {"idle", "done"}
  /\ calls < MaxCalls
  /\ \E config \in requests :
       call' = [call EXCEPT ![p] = [op |-> "createIntermediateCA", config |-> config]]
  /\ pc' = [pc EXCEPT ![p] = "getCertificate"]
  /\ local' = [local EXCEPT ![p] = NoLocal]
  /\ result' = [result EXCEPT ![p] = NoResult]
  /\ calls' = calls + 1
  /\ fields' = retained(fields, local'[p])
  /\ UNCHANGED <<store, imported, nextKey, now, builds, chainOp>>

\* createEndEntityCertificate(config), config any of requests, up to its await of
\* getCertificate
StartEndEntityCertificate(p, requests) ==
  /\ pc[p] \in {"idle", "done"}
  /\ calls < MaxCalls
  /\ \E config \in requests :
       call' = [call EXCEPT ![p] = [op |-> "createEndEntityCertificate", config |-> config]]
  /\ pc' = [pc EXCEPT ![p] = "getCertificate"]
  /\ local' = [local EXCEPT ![p] = NoLocal]
  /\ result' = [result EXCEPT ![p] = NoResult]
  /\ calls' = calls + 1
  /\ fields' = retained(fields, local'[p])
  /\ UNCHANGED <<store, imported, nextKey, now, builds, chainOp>>

\* a faulty variant: a call that fails at getCertificate removes the entry under its name
GetCertificateClearing(p) ==
  /\ pc[p] = "getCertificate"
  /\ \E reply \in getCertificateReplies(store, call[p].config.issuerCA) :
       IF "cer" \in DOMAIN reply
       THEN /\ local' = [local EXCEPT ![p] = [getCertificate |-> reply,
                                              certificate |-> convertToPem(reply.cer)]]
            /\ pc' = [pc EXCEPT ![p] = "getSecret"]
            /\ UNCHANGED <<result, store>>
       ELSE /\ local' = [local EXCEPT ![p] = [getCertificate |-> reply]]
            /\ pc' = [pc EXCEPT ![p] = "done"]
            /\ store' = [store EXCEPT ![call[p].config.name] = NoEntry]
            /\ result' = [result EXCEPT ![p] =
                 issuanceCatch(call[p].config,
                   Error("Failed to download certificate with private key",
                         IF "rejected" \in DOMAIN reply THEN reply.rejected
                         ELSE "has no certificate data"))]
  /\ fields' = retained(fields, local'[p])
  /\ UNCHANGED <<imported, call, nextKey, calls, now, builds, chainOp>>

\* downloadCertificateWithPrivateKey: getCertificate answers
GetCertificate(p) ==
  /\ pc[p] = "getCertificate"
  /\ \E reply \in getCertificateReplies(store, call[p].config.issuerCA) :
       IF "cer" \in DOMAIN reply
       THEN /\ local' = [local EXCEPT ![p] = [getCertificate |-> reply,
                                              certificate |-> convertToPem(reply.cer)]]
            /\ pc' = [pc EXCEPT ![p] = "getSecret"]
            /\ UNCHANGED result
       ELSE /\ local' = [local EXCEPT ![p] = [getCertificate |-> reply]]
            /\ pc' = [pc EXCEPT ![p] = "done"]
            /\ result' = [result EXCEPT ![p] =
                 issuanceCatch(call[p].config,
                   Error("Failed to download certificate with private key",
                         IF "rejected" \in DOMAIN reply THEN reply.rejected
                         ELSE "has no certificate data"))]
  /\ fields' = retained(fields, local'[p])
  /\ UNCHANGED <<store, imported, call, nextKey, calls, now, builds, chainOp>>

\* a faulty variant: an end-entity certificate is built as createIntermediateCA builds its
\* certificate
issuedCertificateAsCA(op, config, issuerCert, issuerPrivateKey, keyPair, serial, t) ==
  intermediateCertificate(config, issuerCert, issuerPrivateKey, keyPair, serial, t)

\* the certificate an issuance operation builds once it holds the issuer's certificate and key
issuedCertificate(op, config, issuerCert, issuerPrivateKey, keyPair, serial, t) ==
  IF op = "createIntermediateCA"
  THEN intermediateCertificate(config, issuerCert, issuerPrivateKey, keyPair, serial, t)
  ELSE endEntityCertificate(config, issuerCert, issuerPrivateKey, keyPair, serial, t)

\* getSecret answers; then the rest of the operation up to its await of the import
GetSecret(p) ==
  /\ pc[p] = "getSecret"
  /\ \E reply \in getSecretReplies(store, call[p].config.issuerCA), serial \in Serials :
       LET config == call[p].config
           download == downloadResult(local[p].certificate, reply)
           issuerData == download.returned
       IN  IF "thrown" \in DOMAIN download
           THEN /\ local' = [local EXCEPT ![p] =
                      [getCertificate |-> local[p].getCertificate, getSecret |-> reply]]
                /\ pc' = [pc EXCEPT ![p] = "done"]
                /\ result' = [result EXCEPT ![p] = issuanceCatch(config, download.thrown)]
                /\ UNCHANGED nextKey
           ELSE IF issuerData.privateKey = Undefined
           THEN /\ local' = [local EXCEPT ![p] =
                      [getCertificate |-> local[p].getCertificate, getSecret |-> reply,
                       issuerData |-> issuerData]]
                /\ pc' = [pc EXCEPT ![p] = "done"]
                /\ result' = [result EXCEPT ![p] =
                      issuanceCatch(config,
                        Error("Private key not available for issuer CA", "none"))]
                /\ UNCHANGED nextKey
           ELSE LET issuerCert == certificateFromPem(issuerData.certificate)
                    issuerPrivateKey == privateKeyFromPem(issuerData.privateKey)
                    cert == issuedCertificate(call[p].op, config, issuerCert,
                                              issuerPrivateKey, nextKey, serial, now)
                    certificateData == [certificate |-> certificateToPem(cert),
                                        privateKey |-> privateKeyToPem(nextKey)]
                IN  /\ local' = [local EXCEPT ![p] =
                          [getCertificate |-> local[p].getCertificate,
                           getSecret |-> reply,
                           issuerData |-> issuerData,
                           issuerCert |-> issuerCert,
                           cert |-> cert,
                           certificateData |-> certificateData]]
                    /\ pc' = [pc EXCEPT ![p] = "import"]
                    /\ nextKey' = nextKey + 1
                    /\ UNCHANGED result
  /\ fields' = retained(fields, local'[p])
  /\ UNCHANGED <<store, imported, call, calls, now, builds, chainOp>>

\* uploadCertificate: importCertificate answers; then the operation returns
Import(p) ==
  /\ pc[p] = "import"
  /\ \E accepted \in importCertificateReplies(store, call[p].config.name) :
       LET config == call[p].config
           certificateData == local[p].certificateData
       IN  /\ store' = IF accepted
                       THEN importCertificate(store, config.name, importBlob(certificateData))
                       ELSE store
           /\ imported' = IF accepted
                          THEN [imported EXCEPT ![config.name] = certificateData]
                          ELSE imported
           /\ result' = [result EXCEPT ![p] =
                 Returned(creationResult(config, uploadResult(config.name, accepted),
                                         certificateData, local[p].cert))]
           /\ local' = [local EXCEPT ![p] =
                 [f \in DOMAIN local[p] \cup {"importCertificate"} |->
                    IF f = "importCertificate" THEN accepted ELSE local[p][f]]]
  /\ pc' = [pc EXCEPT ![p] = "done"]
  /\ fields' = retained(fields, local'[p])
  /\ UNCHANGED <<call, nextKey, calls, now, builds, chainOp>>

Next ==
  \E p \in Procs :
       \/ StartRootCA(p, RootRequests)
       \/ StartIntermediateCA(p, IssuedRequests)
       \/ StartEndEntityCertificate(p, IssuedRequests)
       \/ GetCertificate(p)
       \/ GetSecret(p)
       \/ Import(p)

Spec == Init /\ [][Next]_vars

\* ------------------------------------------------- one caller, any request

\* subject strings without a common name, and without any attribute
OddSubjects == { <<"O", "=", "x">>, <<"R">> }

\* values of config.extendedKeyUsage: each usage alone, two out of order, one repeated,
\* and a name the code does not know
ExtendedKeyUsages ==
  { <<"serverAuth">>, <<"clientAuth">>, <<"codeSigning">>, <<"emailProtection">>,
    <<"timeStamping">>, <<"timeStamping", "clientAuth">>, <<"serverAuth", "serverAuth">>,
    <<"OCSPSigning">> }

\* values of config.san: host names and e-mail addresses, one of them twice
SubjectAltNames ==
  { << <<"d">> >>, << <<"a", "@", "b">> >>, << <<"d">>, <<"a", "@", "b">>, <<"d">> >>,
    << <<"@">>, <<"e">> >> }

\* values of config.keySize and config.validityDays other than absent
KeySizes == {512, 2048}
ValidityDays == {1, 400, 730}

\* the requests of one caller: those above and, for one name and subject, each optional
\* field present
AnyRootRequests ==
  RootRequests
    \cup {issuanceConfig(<<"n", "1">>, subject) : subject \in OddSubjects}
    \cup {[issuanceConfig(<<"n", "1">>, <<"C", "N", "=", "R">>) EXCEPT !.keySize = k] :
            k \in KeySizes}
    \cup {[issuanceConfig(<<"n", "1">>, <<"C", "N", "=", "R">>) EXCEPT !.validityDays = d] :
            d \in ValidityDays}
    \cup {[issuanceConfig(<<"n", "1">>, <<"C", "N", "=", "R">>) EXCEPT !.pathLength = 1,
                                                                  !.isCA = "false"]}

\* the request the variations below start from
IssuedRequest == issuedConfig(<<"n", "2">>, <<"c", "n", "=", "i", ",", " ", "O", "=", "x">>, <<"n", "1">>)

AnyIntermediateRequests ==
  IssuedRequests
    \cup {[IssuedRequest EXCEPT !.validityDays = d] : d \in ValidityDays}
    \cup {[IssuedRequest EXCEPT !.extendedKeyUsage = <<"serverAuth">>,
                                !.san = << <<"d">> >>, !.isCA = "false"]}

AnyEndEntityRequests ==
  IssuedRequests
    \cup {[IssuedRequest EXCEPT !.validityDays = d] : d \in ValidityDays}
    \cup {[IssuedRequest EXCEPT !.extendedKeyUsage = e] : e \in ExtendedKeyUsages}
    \cup {[IssuedRequest EXCEPT !.san = n] : n \in SubjectAltNames}
    \cup {[IssuedRequest EXCEPT !.extendedKeyUsage = <<"codeSigning">>,
                                !.san = << <<"d">> >>, !.pathLength = 1, !.isCA = "true"]}

\* one caller, one call after the other
RequestNext ==
  \E p \in {CHOOSE q \in Procs : \A r \in Procs : q <= r} :
       \/ StartRootCA(p, AnyRootRequests)
       \/ StartIntermediateCA(p, AnyIntermediateRequests)
       \/ StartEndEntityCertificate(p, AnyEndEntityRequests)
       \/ GetCertificate(p)
       \/ GetSecret(p)
       \/ Import(p)

RequestSpec == Init /\ [][RequestNext]_vars

\* ------------------------------------------------ CertificateChainBuilder

\* a faulty variant: the new certificate names itself as its issuer
newCertificateIssuerSelf(sourceCert, config) == createSubject(config.targetCertificateName)

\* the issuer name createNewCertificate sets
newCertificateIssuer(sourceCert, config) == sourceCert.issuer

\* CertificateChainBuilder.createNewCertificate
createNewCertificate(sourceCert, config, keyPair, serial, t) ==
  [serialNumber |-> serial,
   notBefore |-> t - 1,
   notAfter |-> t + OrDefault(config.validityPeriodDays, DefaultChainValidityDays),
   keySize |-> ChainKeySize,
   subject |-> createSubject(config.targetCertificateName),
   issuer |-> newCertificateIssuer(sourceCert, config),
   publicKey |-> keyPair,
   extensions |->
     << [name |-> "basicConstraints", cA |-> FALSE,
         pathLenConstraint |-> ChainPathLenConstraint],
        [name |-> "keyUsage", digitalSignature |-> TRUE, keyEncipherment |-> TRUE,
         dataEncipherment |-> TRUE],
        [name |-> "extKeyUsage", serverAuth |-> TRUE, clientAuth |-> TRUE],
        [name |-> "subjectAltName",
         altNames |-> << [type |-> 2, value |-> config.targetCertificateName] >>] >>,
   signedBy |-> keyPair]

\* a faulty variant: the loop ends at the first PEM that does not parse
RECURSIVE pushParsedUntilMalformed(_, _)
pushParsedUntilMalformed(chain, pems) ==
  IF pems = <<>> \/ ~IsCertificatePem(Head(pems)) THEN chain
  ELSE pushParsedUntilMalformed(Append(chain, certificateFromPem(Head(pems))), Tail(pems))

\* one loop of buildChain: each PEM that parses is pushed, each that does not is skipped
RECURSIVE pushParsed(_, _)
pushParsed(chain, pems) ==
  IF pems = <<>> THEN chain
  ELSE pushParsed(IF IsCertificatePem(Head(pems))
                  THEN Append(chain, certificateFromPem(Head(pems)))
                  ELSE chain,
                  Tail(pems))

\* a faulty variant: the roots are pushed before the intermediates
buildChainRootsFirst(newCert, config) ==
  pushParsed(pushParsed(<<newCert>>, config.rootCertificates),
             config.intermediateCertificates)

\* CertificateChainBuilder.buildChain
buildChain(newCert, config) ==
  pushParsed(pushParsed(<<newCert>>, config.intermediateCertificates),
             config.rootCertificates)

\* CertificateChainBuilder.convertChainToPem: the PEM texts joined by newlines
convertChainToPem(chain) ==
  [certificate |-> chain[1], more |-> Tail(chain)]

\* CertificateChainBuilder.createCertificateChain
createCertificateChain(sourceCertificate, config, keyPair, serial, t) ==
  IF ~IsCertificatePem(sourceCertificate.certificate)
  THEN Thrown(Error("Failed to create certificate chain", "Failed to parse PEM certificate"))
  ELSE LET sourceCert == certificateFromPem(sourceCertificate.certificate)
           newCert == createNewCertificate(sourceCert, config, keyPair, serial, t)
           chain == buildChain(newCert, config)
       IN  Returned([certificate |-> convertChainToPem(chain),
                     privateKey |-> sourceCertificate.privateKey,
                     chain |-> [i \in 1..Len(chain) |-> certificateToPem(chain[i])]])

\* CertificateChainBuilder.validateCertificateChain, the clock reading t
validateCertificateChain(chain, t) ==
  IF Len(chain) = 0 THEN FALSE
  ELSE \A i \in 1..Len(chain) :
         /\ ~(chain[i].notBefore > t \/ chain[i].notAfter < t)
         /\ (i < Len(chain)
               => compareDistinguishedNames(chain[i].issuer, chain[i + 1].subject))

\* a faulty variant: certificate data without a chain goes to the builder's validation as an
\* empty chain
toolValidateCertificateChainStrict(certificateData, t) ==
  IF "chain" \notin DOMAIN certificateData
  THEN validateCertificateChain(<<>>, t)
  ELSE IF \E i \in 1..Len(certificateData.chain) : ~IsCertificatePem(certificateData.chain[i])
       THEN FALSE
       ELSE validateCertificateChain(
              [i \in 1..Len(certificateData.chain) |->
                 certificateFromPem(certificateData.chain[i])], t)

\* CertificateTool.validateCertificateChain
toolValidateCertificateChain(certificateData, t) ==
  IF "chain" \notin DOMAIN certificateData \/ Len(certificateData.chain) = 0
  THEN TRUE
  ELSE IF \E i \in 1..Len(certificateData.chain) : ~IsCertificatePem(certificateData.chain[i])
       THEN FALSE
       ELSE validateCertificateChain(
              [i \in 1..Len(certificateData.chain) |->
                 certificateFromPem(certificateData.chain[i])], t)

\* ------------------------------------------------- chain operations, inputs

\* sequences over S of length at most n
SeqsUpTo(S, n) == UNION {[1..k -> S] : k \in 0..n}

Attr(shortName, value) == [shortName |-> shortName, value |-> value]

\* names that differ in a value, in a type, in length and in order
PoolNames ==
  << setAttributes(<<Attr("CN", <<"i">>)>>),
     setAttributes(<<Attr("O", <<"i">>)>>),
     setAttributes(<<Attr("CN", <<"R">>)>>),
     setAttributes(<<Attr("CN", <<"i">>), Attr("O", <<"x">>)>>),
     setAttributes(<<Attr("O", <<"x">>), Attr("CN", <<"i">>)>>) >>

\* validity windows around the clock's range
PoolWindows == { <<0, 1>>, <<1, MaxNow>> }

\* a certificate made elsewhere: subject PoolNames[k], issued by the next name
PoolCertificate(k, window) ==
  [serialNumber |-> k,
   notBefore |-> window[1],
   notAfter |-> window[2],
   subject |-> PoolNames[k],
   issuer |-> PoolNames[(k % Len(PoolNames)) + 1],
   publicKey |-> k,
   extensions |-> <<>>,
   signedBy |-> (k % Len(PoolNames)) + 1]

CertificatePool == {PoolCertificate(k, w) : k \in 1..Len(PoolNames), w \in PoolWindows}

\* the PEM texts a caller supplies as intermediate and root certificates
SuppliedPems ==
  { certificateToPem(PoolCertificate(4, <<0, 1>>)),
    certificateToPem(PoolCertificate(3, <<1, MaxNow>>)),
    Malformed }

\* the downloaded source certificate: with its key, without it, and unparsable
SourceCertificates ==
  { [certificate |-> certificateToPem(PoolCertificate(1, <<0, 1>>)),
     privateKey |-> privateKeyToPem(1)],
    [certificate |-> certificateToPem(PoolCertificate(1, <<0, 1>>)),
     privateKey |-> Undefined],
    [certificate |-> Malformed, privateKey |-> Undefined] }

TargetNames == { <<"t", "1">>, <<"t", "2">> }

ChainConfigs ==
  [sourceCertificateName : {<<"n", "1">>},
   targetCertificateName : TargetNames,
   intermediateCertificates : SeqsUpTo(SuppliedPems, MaxSupplied),
   rootCertificates : SeqsUpTo(SuppliedPems, MaxSupplied),
   validityPeriodDays : {0}]

\* certificate data handed to CertificateTool.validateCertificateChain
ToolCertificateData ==
  {[certificate |-> Malformed]}
    \cup {[certificate |-> Malformed, chain |-> c] : c \in SeqsUpTo(SuppliedPems, MaxSupplied)}

\* --------------------------------------------------- chain operations, steps

\* CertificateChainBuilder.createCertificateChain, called with any source and config
CreateCertificateChain ==
  /\ chainOp = NoChainOp
  /\ builds < MaxBuilds
  /\ \E sourceCertificate \in SourceCertificates, config \in ChainConfigs, serial \in Serials :
       chainOp' = [op |-> "createCertificateChain",
                   sourceCertificate |-> sourceCertificate,
                   config |-> config,
                   keyPair |-> nextKey,
                   now |-> now,
                   outcome |-> createCertificateChain(sourceCertificate, config,
                                                      nextKey, serial, now)]
  /\ nextKey' = nextKey + 1
  /\ builds' = builds + 1
  /\ UNCHANGED <<issuanceVars, now>>

\* CertificateChainBuilder.validateCertificateChain, called with any chain
ValidateCertificateChain ==
  /\ chainOp = NoChainOp
  /\ \E chain \in SeqsUpTo(CertificatePool, MaxChainLen) :
       chainOp' = [op |-> "validateCertificateChain",
                   chain |-> chain,
                   now |-> now,
                   outcome |-> validateCertificateChain(chain, now)]
  /\ UNCHANGED <<issuanceVars, nextKey, now, builds>>

\* CertificateTool.validateCertificateChain, called with assembled or any certificate data
ToolValidateCertificateChain ==
  /\ \E certificateData \in
         (IF chainOp = NoChainOp THEN ToolCertificateData
          ELSE IF chainOp.op = "createCertificateChain" /\ "returned" \in DOMAIN chainOp.outcome
               THEN {chainOp.outcome.returned}
               ELSE {}) :
       chainOp' = [op |-> "CertificateTool.validateCertificateChain",
                   certificateData |-> certificateData,
                   now |-> now,
                   outcome |-> toolValidateCertificateChain(certificateData, now)]
  /\ UNCHANGED <<issuanceVars, nextKey, now, builds>>

\* the caller takes the outcome of the last chain operation
ChainReturn ==
  /\ chainOp # NoChainOp
  /\ chainOp' = NoChainOp
  /\ UNCHANGED <<issuanceVars, nextKey, now, builds>>

\* a day passes (between chain operations, which take no time)
Tick ==
  /\ chainOp = NoChainOp
  /\ now < MaxNow
  /\ now' = now + 1
  /\ UNCHANGED <<issuanceVars, nextKey, builds, chainOp>>

ChainNext ==
  \/ CreateCertificateChain
  \/ ValidateCertificateChain
  \/ ToolValidateCertificateChain
  \/ ChainReturn
  \/ Tick

ChainSpec == Init /\ [][ChainNext]_vars

\* ------------------------------------- CertificateTool.processCertificateChain

\* the chain configurations of processCertificateChain: source and target any name of the
\* vault, no intermediate or one
ProcessConfigs ==
  [sourceCertificateName : Names,
   targetCertificateName : Names,
   intermediateCertificates : {<<>>} \cup {<<pem>> : pem \in SuppliedPems},
   rootCertificates : {<<>>},
   validityPeriodDays : {0}]

\* the catch block of processCertificateChain: the error becomes a failure result
processCatch(error) ==
  Returned([success |-> FALSE, message |-> "Certificate chain process failed",
            error |-> error])

\* a faulty variant: the upload follows validation whatever it returned
afterValidationUploads(isValid) == "uploadChained"

\* where processCertificateChain goes after step 4: on to the upload, or into its catch
afterValidation(isValid) == IF isValid THEN "uploadChained" ELSE "done"

\* processCertificateChain up to its await of getCertificate in downloadCertificate
StartProcessCertificateChain(p) ==
  /\ pc[p] \in {"idle", "done"}
  /\ calls < MaxCalls
  /\ \E config \in ProcessConfigs :
       call' = [call EXCEPT ![p] = [op |-> "processCertificateChain", config |-> config]]
  /\ pc' = [pc EXCEPT ![p] = "downloadSource"]
  /\ local' = [local EXCEPT ![p] = [steps |-> <<>>]]
  /\ result' = [result EXCEPT ![p] = NoResult]
  /\ calls' = calls + 1
  /\ fields' = retained(fields, local'[p])
  /\ UNCHANGED <<store, imported, nextKey, now, builds, chainOp>>

\* step 1, downloadCertificate: getCertificate answers
DownloadSource(p) ==
  /\ pc[p] = "downloadSource"
  /\ \E reply \in getCertificateReplies(store, call[p].config.sourceCertificateName) :
       IF "cer" \in DOMAIN reply
       THEN /\ local' = [local EXCEPT ![p] =
                  [steps |-> <<"download">>,
                   sourceCertificate |-> [certificate |-> convertToPem(reply.cer),
                                          privateKey |-> Undefined]]]
            /\ pc' = [pc EXCEPT ![p] = "getCertificateInfo"]
            /\ UNCHANGED result
       ELSE /\ local' = [local EXCEPT ![p] = [steps |-> <<"download">>]]
            /\ pc' = [pc EXCEPT ![p] = "done"]
            /\ result' = [result EXCEPT ![p] =
                 processCatch(Error("Failed to download source certificate",
                                    IF "rejected" \in DOMAIN reply THEN reply.rejected
                                    ELSE "has no certificate data"))]
  /\ fields' = retained(fields, local'[p])
  /\ UNCHANGED <<store, imported, call, nextKey, calls, now, builds, chainOp>>

\* step 2, getCertificateInfo: getCertificate answers; then steps 3 and 4, the chain
\* created and validated, up to the await of the import
GetCertificateInfo(p) ==
  /\ pc[p] = "getCertificateInfo"
  /\ \E reply \in getCertificateReplies(store, call[p].config.sourceCertificateName),
        serial \in Serials :
       IF "cer" \notin DOMAIN reply
       THEN /\ local' = [local EXCEPT ![p] =
                  [steps |-> <<"download", "info">>,
                   sourceCertificate |-> local[p].sourceCertificate]]
            /\ pc' = [pc EXCEPT ![p] = "done"]
            /\ result' = [result EXCEPT ![p] =
                 processCatch(Error("Failed to get certificate info",
                                    IF "rejected" \in DOMAIN reply THEN reply.rejected
                                    ELSE "has no certificate data"))]
            /\ UNCHANGED nextKey
       ELSE LET created == createCertificateChain(local[p].sourceCertificate,
                                                  call[p].config, nextKey, serial, now)
            IN  /\ nextKey' = nextKey + 1
                /\ IF "thrown" \in DOMAIN created
                   THEN /\ local' = [local EXCEPT ![p] =
                              [steps |-> <<"download", "info", "create">>,
                               sourceCertificate |-> local[p].sourceCertificate]]
                        /\ pc' = [pc EXCEPT ![p] = "done"]
                        /\ result' = [result EXCEPT ![p] = processCatch(created.thrown)]
                   ELSE LET chainedCertificate == created.returned
                            isValid == toolValidateCertificateChain(chainedCertificate, now)
                        IN  /\ local' = [local EXCEPT ![p] =
                                  [steps |-> <<"download", "info", "create", "validate">>,
                                   sourceCertificate |-> local[p].sourceCertificate,
                                   chainedCertificate |-> chainedCertificate,
                                   isValid |-> isValid,
                                   validatedAt |-> now]]
                            /\ pc' = [pc EXCEPT ![p] = afterValidation(isValid)]
                            /\ result' = [result EXCEPT ![p] =
                                 IF afterValidation(isValid) = "done"
                                 THEN processCatch(Error("Certificate chain validation failed",
                                                         "none"))
                                 ELSE NoResult]
  /\ fields' = retained(fields, local'[p])
  /\ UNCHANGED <<store, imported, call, calls, now, builds, chainOp>>

\* step 5, uploadCertificate: importCertificate answers; then processCertificateChain returns
UploadChained(p) ==
  /\ pc[p] = "uploadChained"
  /\ \E accepted \in importCertificateReplies(store, call[p].config.targetCertificateName) :
       LET name == call[p].config.targetCertificateName
           chainedCertificate == local[p].chainedCertificate
           upload == uploadResult(name, accepted)
       IN  /\ store' = IF accepted
                       THEN importCertificate(store, name, importBlob(chainedCertificate))
                       ELSE store
           /\ imported' = IF accepted
                          THEN [imported EXCEPT ![name] = chainedCertificate]
                          ELSE imported
           /\ result' = [result EXCEPT ![p] =
                 IF upload.success
                 THEN Returned([success |-> TRUE,
                                message |-> "Certificate chain process completed successfully",
                                certificateName |-> name])
                 ELSE processCatch(Error(upload.message, "none"))]
           /\ local' = [local EXCEPT ![p] =
                 [f \in DOMAIN local[p] \cup {"importCertificate"} |->
                    IF f = "importCertificate" THEN accepted
                    ELSE IF f = "steps" THEN Append(local[p].steps, "upload")
                    ELSE local[p][f]]]
  /\ pc' = [pc EXCEPT ![p] = "done"]
  /\ fields' = retained(fields, local'[p])
  /\ UNCHANGED <<call, nextKey, calls, now, builds, chainOp>>

\* certificates are created and chained by concurrent callers
ProcessNext ==
  \E p \in Procs :
       \/ StartRootCA(p, RootRequests)
       \/ Import(p)
       \/ StartProcessCertificateChain(p)
       \/ DownloadSource(p)
       \/ GetCertificateInfo(p)
       \/ UploadChained(p)

ProcessSpec == Init /\ [][ProcessNext]_vars

\* ------------------------------------------------------- issuance: claims

IssuedOps == {"createIntermediateCA", "createEndEntityCertificate"}

\* caller p's call has returned a success result
Succeeded(p) ==
  /\ pc[p] = "done"
  /\ "returned" \in DOMAIN result[p]
  /\ result[p].returned.success

\* the certificate in the result of caller p's successful call
IssuedCert(p) == certificateFromPem(result[p].returned.certificateData.certificate)

\* C1: every certificate createIntermediateCA or createEndEntityCertificate issues
\* successfully has as issuer DN the subject DN of the CA certificate it fetched from
\* the store under config.issuerCA.
C1_IssuerIsIssuerCASubject ==
  \A p \in Procs :
    (Succeeded(p) /\ call[p].op \in IssuedOps)
      => IssuedCert(p).issuer = local[p].issuerCert.subject

\* the DN each subject string of the model denotes, written out
ExpectedSubjectDN(subject) ==
  CASE subject = <<"C", "N", "=", "R">> ->
         << [name |-> "commonName", shortName |-> "CN", value |-> <<"R">>] >>
    [] subject = <<"c", "n", "=", "i", ",", " ", "O", "=", "x">> ->
         << [name |-> "commonName", shortName |-> "CN", value |-> <<"i">>],
            [name |-> "organizationName", shortName |-> "O", value |-> <<"x">>] >>

\* C2: every certificate createRootCA issues is self-issued and self-signed: subject DN
\* and issuer DN are equal and are the DN of config.subject, and the signature is made
\* with the private key of the pair generated in that call (the pair whose public key the
\* certificate carries, whose private key is returned, and which no other call holds).
C2_RootSelfIssuedSelfSigned ==
  \A p \in Procs :
    (Succeeded(p) /\ call[p].op = "createRootCA")
      => LET cert == IssuedCert(p)
         IN  /\ cert.subject = cert.issuer
             /\ cert.subject = ExpectedSubjectDN(call[p].config.subject)
             /\ cert.signedBy = cert.publicKey
             /\ cert.signedBy >= FirstKey
             /\ result[p].returned.certificateData.privateKey = [privateKey |-> cert.signedBy]
             /\ \A q \in Procs \ {p} :
                  "cert" \in DOMAIN local[q] => local[q].cert.publicKey # cert.signedBy

C2_Witness ==
  \E p \in Procs :
    /\ Succeeded(p)
    /\ call[p].op = "createRootCA"
    /\ Len(IssuedCert(p).subject) = 2

\* the store had no certificate under config.issuerCA when caller p looked it up
IssuerNotFound(p) ==
  /\ pc[p] = "done"
  /\ call[p].op \in IssuedOps
  /\ local[p].getCertificate = [rejected |-> "CertificateNotFound"]

\* the issuer certificate was there but caller p could not obtain its private key
IssuerKeyUnavailable(p) ==
  /\ pc[p] = "done"
  /\ call[p].op \in IssuedOps
  /\ "issuerData" \in DOMAIN local[p]
  /\ local[p].issuerData.privateKey = Undefined

ImportFailed(p) ==
  /\ pc[p] = "done"
  /\ "importCertificate" \in DOMAIN local[p]
  /\ ~local[p].importCertificate

\* C8: when the import fails, an issuance operation does not throw: it returns a result
\* with success = false, a message and the error, carrying neither certificateData nor a
\* thumbprint.
C8_ImportFailureResult ==
  \A p \in Procs :
    ImportFailed(p)
      => /\ "returned" \in DOMAIN result[p]
         /\ result[p].returned.success = FALSE
         /\ {"message", "error"} \subseteq DOMAIN result[p].returned
         /\ "certificateData" \notin DOMAIN result[p].returned
         /\ "thumbprint" \notin DOMAIN result[p].returned

C8_Witness ==
  \E p \in Procs : ImportFailed(p) /\ call[p].op = "createIntermediateCA"

\* C9: issuance calls on the same name never block or fail one another (a call that is
\* waiting for the store always has an answer to go on with, an import can be accepted
\* whatever entry is there, and a call whose import was accepted succeeds), and the entry under a name is exactly the certificate and key of the import
\* that took effect last: the key in the entry is the key of the certificate in it.
C9_LastImportWins ==
  /\ \A p \in Procs :
       /\ pc[p] = "getCertificate"
            => getCertificateReplies(store, call[p].config.issuerCA) # {}
       /\ pc[p] = "getSecret"
            => getSecretReplies(store, call[p].config.issuerCA) # {}
       /\ pc[p] = "import"
            => TRUE \in importCertificateReplies(store, call[p].config.name)
       /\ (pc[p] = "done" /\ "importCertificate" \in DOMAIN local[p])
            => result[p].returned.success = local[p].importCertificate
  /\ \A n \in Names :
       store[n] # NoEntry
         => /\ store[n].certificate = imported[n].certificate
            /\ store[n].privateKey = imported[n].privateKey
            /\ privateKeyFromPem(store[n].privateKey)
                 = certificateFromPem(store[n].certificate).publicKey

\* two calls on one name overlapped: caller 1 built its certificate first, and its
\* import took effect last
C9_Witness ==
  /\ Succeeded(1) /\ Succeeded(2)
  /\ call[1].config.name = call[2].config.name
  /\ local[1].cert.publicKey < local[2].cert.publicKey
  /\ store[call[1].config.name] = importBlob(local[1].certificateData)

\* ---------------------------------------------------------- chain: claims

ChainOpIs(op) == chainOp # NoChainOp /\ chainOp.op = op

\* structural equality of two DNs: same length, same type and value at each position
StructurallyEqual(dn1, dn2) ==
  /\ Len(dn1) = Len(dn2)
  /\ \A i \in 1..Len(dn1) :
       dn1[i].shortName = dn2[i].shortName /\ dn1[i].value = dn2[i].value

WithinValidity(cert, t) == cert.notBefore <= t /\ t <= cert.notAfter

\* C3: for a non-empty chain validateCertificateChain returns true exactly when every
\* record is within its validity window and, for every adjacent pair, the issuer DN of
\* the first is structurally equal to the subject DN of the second; the issuer of the
\* last record is not looked at.
C3_ValidIffWindowsAndLinks ==
  (ChainOpIs("validateCertificateChain") /\ Len(chainOp.chain) > 0)
    => chainOp.outcome =
         ( /\ \A i \in 1..Len(chainOp.chain) : WithinValidity(chainOp.chain[i], chainOp.now)
           /\ \A i \in 1..(Len(chainOp.chain) - 1) :
                StructurallyEqual(chainOp.chain[i].issuer, chainOp.chain[i + 1].subject) )

\* a chain of three validated, its last record issued by a name other than its own
C3_Witness ==
  /\ ChainOpIs("validateCertificateChain")
  /\ Len(chainOp.chain) = 3
  /\ chainOp.outcome = TRUE
  /\ chainOp.chain[3].issuer # chainOp.chain[3].subject

\* the chain list of certificate data is empty or absent
NoChain(certificateData) ==
  "chain" \notin DOMAIN certificateData \/ Len(certificateData.chain) = 0

\* C4 as stated: validating an empty chain yields false at every entry point, the
\* validation step of processCertificateChain included.
C4_EmptyChainIsInvalid ==
  /\ (ChainOpIs("validateCertificateChain") /\ Len(chainOp.chain) = 0)
       => chainOp.outcome = FALSE
  /\ (ChainOpIs("CertificateTool.validateCertificateChain") /\ NoChain(chainOp.certificateData))
       => chainOp.outcome = FALSE

\* C4 amended: CertificateChainBuilder.validateCertificateChain([]) is false, and the
\* validation step of processCertificateChain returns true for certificate data whose
\* chain list is empty or absent.
C4_EmptyChainByEntryPoint ==
  /\ (ChainOpIs("validateCertificateChain") /\ Len(chainOp.chain) = 0)
       => chainOp.outcome = FALSE
  /\ (ChainOpIs("CertificateTool.validateCertificateChain") /\ NoChain(chainOp.certificateData))
       => chainOp.outcome = TRUE

C4_Witness ==
  /\ ChainOpIs("CertificateTool.validateCertificateChain")
  /\ "chain" \notin DOMAIN chainOp.certificateData

\* createCertificateChain returned certificate data
ChainReturned ==
  ChainOpIs("createCertificateChain") /\ "returned" \in DOMAIN chainOp.outcome

ParsableOnly(pems) == SelectSeq(pems, IsCertificatePem)

\* C5: the chain list createCertificateChain returns is the newly built leaf, then the
\* parsable supplied intermediates in the order given, then the parsable supplied roots
\* in the order given: nothing is reordered, dropped as a duplicate or sorted.
C5_ChainOrder ==
  ChainReturned
    => LET chain == chainOp.outcome.returned.chain
       IN  /\ Len(chain) >= 1
           /\ IsCertificatePem(chain[1])
           /\ certificateFromPem(chain[1]).publicKey = chainOp.keyPair
           /\ Tail(chain) = ParsableOnly(chainOp.config.intermediateCertificates)
                              \o ParsableOnly(chainOp.config.rootCertificates)

\* a chain returned that holds a certificate twice, and whose intermediates are not in
\* issuing order
C5_Witness ==
  /\ ChainReturned
  /\ Len(chainOp.outcome.returned.chain) = 5
  /\ chainOp.outcome.returned.chain[2] = chainOp.outcome.returned.chain[4]
  /\ chainOp.outcome.returned.chain[2] # chainOp.outcome.returned.chain[3]

Parsable(pems) == {i \in 1..Len(pems) : IsCertificatePem(pems[i])}

\* C6: a supplied PEM that does not parse is skipped: createCertificateChain fails
\* exactly when the base certificate does not parse, and otherwise its chain holds
\* 1 + (number of parsable supplied PEMs) entries, every parsable supplied PEM among
\* them, in the order supplied.
C6_MalformedSkipped ==
  ChainOpIs("createCertificateChain")
    => /\ ("thrown" \in DOMAIN chainOp.outcome)
            <=> ~IsCertificatePem(chainOp.sourceCertificate.certificate)
       /\ "returned" \in DOMAIN chainOp.outcome
            => LET chain == chainOp.outcome.returned.chain
                   ints == chainOp.config.intermediateCertificates
                   roots == chainOp.config.rootCertificates
                   supplied == ints \o roots
                   \* the place in the chain of the i-th supplied PEM, if it parses
                   place(i) == 1 + Cardinality({j \in Parsable(supplied) : j <= i})
               IN  /\ Len(chain) = 1 + Cardinality(Parsable(ints)) + Cardinality(Parsable(roots))
                   /\ \A i \in Parsable(supplied) : chain[place(i)] = supplied[i]
                   /\ \A k \in 1..Len(chain) : chain[k] # Malformed

\* a chain returned although a malformed PEM was supplied ahead of a parsable one
C6_Witness ==
  /\ ChainReturned
  /\ Len(chainOp.config.intermediateCertificates) = 2
  /\ chainOp.config.intermediateCertificates[1] = Malformed
  /\ IsCertificatePem(chainOp.config.intermediateCertificates[2])
  /\ Len(chainOp.outcome.returned.chain) = 2

\* C10: the leaf createCertificateChain builds has the target name as subject common
\* name and as DNS subjectAltName, and the base certificate's issuer DN as issuer; it is
\* signed with the private key of the pair generated in the call; the result's
\* privateKey is the base certificate's, unchanged, which signs nothing; the fresh
\* private key is not in the result.
C10_LeafOfChain ==
  ChainReturned
    => LET out == chainOp.outcome.returned
           target == chainOp.config.targetCertificateName
           source == chainOp.sourceCertificate
           leaf == certificateFromPem(out.chain[1])
       IN  /\ Len(leaf.subject) = 1
           /\ leaf.subject[1].name = "commonName"
           /\ leaf.subject[1].value = target
           /\ \E i \in 1..Len(leaf.extensions) :
                /\ leaf.extensions[i].name = "subjectAltName"
                /\ leaf.extensions[i].altNames = << [type |-> 2, value |-> target] >>
           /\ leaf.issuer = certificateFromPem(source.certificate).issuer
           /\ leaf.publicKey = chainOp.keyPair
           /\ leaf.signedBy = chainOp.keyPair
           /\ chainOp.keyPair >= FirstKey
           /\ out.privateKey = source.privateKey
           /\ out.privateKey # [privateKey |-> chainOp.keyPair]
           /\ IsPrivateKeyPem(source.privateKey)
                => leaf.signedBy # privateKeyFromPem(source.privateKey)

\* a chain assembled from a base certificate that came with its private key
C10_Witness ==
  /\ ChainReturned
  /\ IsPrivateKeyPem(chainOp.sourceCertificate.privateKey)
  /\ chainOp.keyPair > FirstKey

\* ------------------------------------------------------- requests: claims

\* C11: a certificate issued for a validity of d days (d >= 1) has notAfter equal to
\* notBefore plus d days.
C11_NotAfterIsNotBeforePlusDays ==
  \A p \in Procs :
    (Succeeded(p) /\ call[p].config.validityDays >= 1)
      => IssuedCert(p).notAfter = IssuedCert(p).notBefore + call[p].config.validityDays

\* the private keys caller p's call generated or downloaded, as PEM
KeysOfCall(p) ==
  (IF "certificateData" \in DOMAIN local[p] THEN {local[p].certificateData.privateKey} ELSE {})
    \cup (IF "issuerData" \in DOMAIN local[p] /\ IsPrivateKeyPem(local[p].issuerData.privateKey)
          THEN {local[p].issuerData.privateKey} ELSE {})

\* C12: no field of the KeyVaultClient, the CertificateTool or the CertificateChainBuilder
\* holds private key material, whatever calls have completed; the private key a call
\* generated is, once the call is over, in the result the caller got (if it succeeded)
\* and in the store under config.name (if the last import accepted there was this
\* call's), and in no other entry of the store.
C12_NoKeyMaterialRetained ==
  /\ \A object \in DOMAIN fields : \A f \in DOMAIN fields[object] :
       /\ ~IsPrivateKeyPem(fields[object][f])
       /\ \A p \in Procs : fields[object][f] \notin KeysOfCall(p)
  /\ \A p \in Procs :
       (pc[p] = "done" /\ "certificateData" \in DOMAIN local[p])
         => LET key == local[p].certificateData.privateKey
            IN  /\ Succeeded(p) => result[p].returned.certificateData.privateKey = key
                /\ ~Succeeded(p) => "certificateData" \notin DOMAIN result[p].returned
                /\ \A n \in Names :
                     (store[n] # NoEntry /\ store[n].privateKey = key)
                       => (n = call[p].config.name /\ local[p].importCertificate)

\* an issuance that downloaded the issuer's key and generated one has completed
C12_Witness ==
  \E p \in Procs :
    /\ Succeeded(p)
    /\ call[p].op \in IssuedOps
    /\ Cardinality(KeysOfCall(p)) = 2
    /\ store[call[p].config.name].privateKey = local[p].certificateData.privateKey

\* ---------------------------------------------- processCertificateChain: claims

\* the documented order of the steps of processCertificateChain
DocumentedSteps == <<"download", "info", "create", "validate", "upload">>

\* the chain list passes validation at time t: every entry parses, is within its validity
\* window, and is issued by the name the next entry has as subject
ChainPasses(pems, t) ==
  \/ Len(pems) = 0
  \/ /\ \A i \in 1..Len(pems) : IsCertificatePem(pems[i])
     /\ \A i \in 1..Len(pems) : WithinValidity(certificateFromPem(pems[i]), t)
     /\ \A i \in 1..(Len(pems) - 1) :
          StructurallyEqual(certificateFromPem(pems[i]).issuer,
                            certificateFromPem(pems[i + 1]).subject)

\* C13: the steps of processCertificateChain run in the documented order, and the import
\* of the chained certificate is called only after the assembled chain passed validation:
\* when validation returned false the call ends in a failure result with no import called.
C13_ImportOnlyAfterValidation ==
  \A p \in Procs :
    (call[p] # NoCall /\ call[p].op = "processCertificateChain")
      => /\ local[p].steps = SubSeq(DocumentedSteps, 1, Len(local[p].steps))
         /\ (pc[p] = "uploadChained" \/ "importCertificate" \in DOMAIN local[p])
              => /\ Len(local[p].steps) >= 4
                 /\ local[p].isValid
                 /\ ChainPasses(local[p].chainedCertificate.chain, local[p].validatedAt)
         /\ (Len(local[p].steps) >= 4
               /\ ~ChainPasses(local[p].chainedCertificate.chain, local[p].validatedAt))
              => /\ pc[p] = "done"
                 /\ local[p].steps = SubSeq(DocumentedSteps, 1, 4)
                 /\ "importCertificate" \notin DOMAIN local[p]
                 /\ ~result[p].returned.success

\* a chain of two passed validation and was imported under the target name
C13_Witness ==
  \E p \in Procs :
    /\ call[p] # NoCall /\ call[p].op = "processCertificateChain"
    /\ local[p].steps = DocumentedSteps
    /\ Len(local[p].chainedCertificate.chain) = 2
    /\ local[p].importCertificate
    /\ store[call[p].config.targetCertificateName].certificate
         = local[p].chainedCertificate.certificate

\* ------------------------------- downloadCertificateWithPrivateKey: claims

\* the secret's answer carries a bundle with a private key in it
SecretHasKey(reply) ==
  /\ "value" \in DOMAIN reply
  /\ "privateKey" \in DOMAIN reply.value
  /\ IsPrivateKeyPem(reply.value.privateKey)

\* C14: downloadCertificateWithPrivateKey fails exactly when getCertificate fails or returns
\* no certificate data; once the certificate is fetched it returns the certificate as PEM,
\* with the private key when the secret holds a bundle with a key, and without a
\* privateKey (and without an error) when the secret lookup fails, the secret is empty,
\* the bundle does not parse, or the bundle holds no key.
C14_DownloadDegradesToNoKey ==
  \A p \in Procs :
    (call[p] # NoCall /\ call[p].op \in IssuedOps /\ "getCertificate" \in DOMAIN local[p])
      => IF "cer" \notin DOMAIN local[p].getCertificate
         THEN /\ pc[p] = "done"
              /\ "issuerData" \notin DOMAIN local[p]
              /\ ~result[p].returned.success
              /\ result[p].returned.error.message
                   = "Failed to download certificate with private key"
         ELSE /\ pc[p] # "done" => "thrown" \notin DOMAIN result[p]
              /\ "getSecret" \in DOMAIN local[p]
                   => /\ "issuerData" \in DOMAIN local[p]
                      /\ local[p].issuerData.certificate
                           = certificateToPem(local[p].getCertificate.cer)
                      /\ SecretHasKey(local[p].getSecret)
                           => local[p].issuerData.privateKey
                                = local[p].getSecret.value.privateKey
                      /\ ~SecretHasKey(local[p].getSecret)
                           => local[p].issuerData.privateKey = Undefined

\* a download that met a bundle that does not parse and returned the certificate alone
C14_Witness ==
  \E p \in Procs :
    /\ call[p] # NoCall /\ call[p].op \in IssuedOps
    /\ "getSecret" \in DOMAIN local[p]
    /\ "value" \in DOMAIN local[p].getSecret
    /\ "unparsable" \in DOMAIN local[p].getSecret.value
    /\ IsCertificatePem(local[p].issuerData.certificate)
    /\ local[p].issuerData.privateKey = Undefined

\* ------------------------------------------------ the extensions: claims

\* the extensions of a certificate that have the given name
ExtensionsNamed(cert, name) ==
  SelectSeq(cert.extensions, LAMBDA e : e.name = name)

CARoles == {"createRootCA", "createIntermediateCA"}

\* C15: every certificate an issuance operation builds has one basicConstraints extension,
\* whose cA is true if createRootCA or createIntermediateCA built it and false if
\* createEndEntityCertificate did, whatever the request's other fields (isCA, pathLength,
\* extendedKeyUsage, san among them) are.
C15_CAByRole ==
  \A p \in Procs :
    (call[p] # NoCall /\ "cert" \in DOMAIN local[p])
      => /\ Len(ExtensionsNamed(local[p].cert, "basicConstraints")) = 1
         /\ ExtensionsNamed(local[p].cert, "basicConstraints")[1].cA
              = (call[p].op \in CARoles)
         /\ Succeeded(p) => IssuedCert(p) = local[p].cert

\* an end-entity certificate issued on a request that says isCA and has a pathLength
C15_Witness ==
  \E p \in Procs :
    /\ Succeeded(p)
    /\ call[p].op = "createEndEntityCertificate"
    /\ call[p].config.isCA = "true"
    /\ call[p].config.pathLength = 1
    /\ store[call[p].config.issuerCA] # NoEntry

\* caller p's call is a createEndEntityCertificate that has built its certificate
BuiltEndEntity(p) ==
  /\ call[p] # NoCall
  /\ call[p].op = "createEndEntityCertificate"
  /\ "cert" \in DOMAIN local[p]

\* C16: the certificate createEndEntityCertificate builds has no subjectAltName extension
\* when config.san is empty or absent, and otherwise one, with one entry per name of
\* config.san, in the same order, carrying the name as value, of type 1 (e-mail) when
\* the name contains "@" and of type 2 (DNS) otherwise.
C16_SubjectAltNames ==
  \A p \in Procs :
    BuiltEndEntity(p)
      => LET san == call[p].config.san
             exts == ExtensionsNamed(local[p].cert, "subjectAltName")
         IN  IF Len(san) = 0
             THEN exts = <<>>
             ELSE /\ Len(exts) = 1
                  /\ Len(exts[1].altNames) = Len(san)
                  /\ \A i \in 1..Len(san) :
                       /\ exts[1].altNames[i].value = san[i]
                       /\ exts[1].altNames[i].type
                            = (IF \E j \in 1..Len(san[i]) : san[i][j] = "@" THEN 1 ELSE 2)

\* a certificate issued for a DNS name, an e-mail address and the DNS name again
C16_Witness ==
  \E p \in Procs :
    /\ BuiltEndEntity(p)
    /\ Succeeded(p)
    /\ call[p].config.san = << <<"d">>, <<"a", "@", "b">>, <<"d">> >>

\* the usages an extended key usage extension can carry
KeyPurposes == {"serverAuth", "clientAuth", "codeSigning", "emailProtection", "timeStamping"}

\* C17: the certificate createEndEntityCertificate builds has no extKeyUsage extension
\* when no usage is requested, and otherwise one, in which each of serverAuth, clientAuth,
\* codeSigning, emailProtection and timeStamping is set exactly when it appears in
\* config.extendedKeyUsage, independently of the others.
C17_ExtendedKeyUsage ==
  \A p \in Procs :
    BuiltEndEntity(p)
      => LET requested == {call[p].config.extendedKeyUsage[i] :
                             i \in 1..Len(call[p].config.extendedKeyUsage)}
             exts == ExtensionsNamed(local[p].cert, "extKeyUsage")
         IN  IF requested = {}
             THEN exts = <<>>
             ELSE /\ Len(exts) = 1
                  /\ DOMAIN exts[1] = KeyPurposes \cup {"name"}
                  /\ \A u \in KeyPurposes : exts[1][u] = (u \in requested)

\* a certificate issued for timeStamping and clientAuth, requested in that order
C17_Witness ==
  \E p \in Procs :
    /\ BuiltEndEntity(p)
    /\ Succeeded(p)
    /\ call[p].config.extendedKeyUsage = <<"timeStamping", "clientAuth">>

\* ------------------------------------------- rejected requests: claims

\* the subject string parses into a name that has a common name
HasCommonName(subject) ==
  \E i \in 1..Len(parseSubject(subject)) : parseSubject(subject)[i].shortName = "CN"

\* caller p's call has signed no certificate and imported nothing, and if it is over it
\* failed with an error of the given name
Rejected(p, errorName) ==
  /\ "cert" \notin DOMAIN local[p]
  /\ pc[p] # "import"
  /\ "importCertificate" \notin DOMAIN local[p]
  /\ pc[p] = "done"
       => \/ /\ "thrown" \in DOMAIN result[p]
             /\ result[p].thrown.name = errorName
          \/ /\ "returned" \in DOMAIN result[p]
             /\ ~result[p].returned.success
             /\ result[p].returned.error.name = errorName

\* C18: createRootCA on a subject string that does not parse into a DN, or parses into one
\* without a common name, fails with InvalidSubjectError; no certificate is signed and
\* nothing is imported.
C18_InvalidSubjectRejected ==
  \A p \in Procs :
    (call[p] # NoCall /\ call[p].op = "createRootCA" /\ ~HasCommonName(call[p].config.subject))
      => Rejected(p, "InvalidSubjectError")

\* the smallest key size issuance is to accept, in bits
MinKeySize == 1024

\* C19: createRootCA on a request for a key smaller than the minimum fails with
\* KeySizeError; no certificate is signed and nothing is imported.
C19_SmallKeyRejected ==
  \A p \in Procs :
    (call[p] # NoCall /\ call[p].op = "createRootCA"
       /\ call[p].config.keySize > 0 /\ call[p].config.keySize < MinKeySize)
      => Rejected(p, "KeySizeError")

\* ------------------------------------------- PEM text, character by character

MaxBytes == 4      \* every byte sequence up to this length is converted

LineLength == 64

\* the base64 alphabet
Alphabet ==
  << "A", "B", "C", "D", "E", "F", "G", "H", "I", "J", "K", "L", "M", "N", "O", "P",
     "Q", "R", "S", "T", "U", "V", "W", "X", "Y", "Z", "a", "b", "c", "d", "e", "f",
     "g", "h", "i", "j", "k", "l", "m", "n", "o", "p", "q", "r", "s", "t", "u", "v",
     "w", "x", "y", "z", "0", "1", "2", "3", "4", "5", "6", "7", "8", "9", "+", "/" >>

Sextet(v) == Alphabet[v + 1]

\* Buffer.from(derData).toString('base64'): three bytes become four characters, a last
\* group of two or one is padded with "="
RECURSIVE toBase64(_)
toBase64(bytes) ==
  IF Len(bytes) = 0 THEN <<>>
  ELSE IF Len(bytes) = 1
  THEN LET n == bytes[1] * 16
       IN  << Sextet(n \div 64), Sextet(n % 64), "=", "=" >>
  ELSE IF Len(bytes) = 2
  THEN LET n == (bytes[1] * 256 + bytes[2]) * 4
       IN  << Sextet(n \div 4096), Sextet((n \div 64) % 64), Sextet(n % 64), "=" >>
  ELSE LET n == bytes[1] * 65536 + bytes[2] * 256 + bytes[3]
       IN  << Sextet(n \div 262144), Sextet((n \div 4096) % 64),
              Sextet((n \div 64) % 64), Sextet(n % 64) >>
             \o toBase64(SubSeq(bytes, 4, Len(bytes)))

\* a faulty variant: only whole pieces of 64 characters are matched (/.{64}/g)
RECURSIVE match64Whole(_)
match64Whole(text) ==
  IF Len(text) < LineLength THEN <<>>
  ELSE <<SubSeq(text, 1, LineLength)>> \o match64Whole(SubSeq(text, LineLength + 1, Len(text)))

\* a faulty variant: the text is cut into pieces of 76 characters (/.{1,76}/g)
RECURSIVE match76(_)
match76(text) ==
  IF Len(text) = 0 THEN <<>>
  ELSE IF Len(text) <= LineLength + 12 THEN <<text>>
  ELSE <<SubSeq(text, 1, LineLength + 12)>>
         \o match76(SubSeq(text, LineLength + 13, Len(text)))

\* base64.match(/.{1,64}/g): the text cut into pieces of 64 characters, the last one
\* shorter; null (here no piece) for the empty text
RECURSIVE match64(_)
match64(text) ==
  IF Len(text) = 0 THEN <<>>
  ELSE IF Len(text) <= LineLength THEN <<text>>
  ELSE <<SubSeq(text, 1, LineLength)>> \o match64(SubSeq(text, LineLength + 1, Len(text)))

\* Array.prototype.join with a one-character separator
RECURSIVE join(_, _)
join(pieces, sep) ==
  IF Len(pieces) = 0 THEN <<>>
  ELSE IF Len(pieces) = 1 THEN pieces[1]
  ELSE pieces[1] \o <<sep>> \o join(Tail(pieces), sep)

Dashes == <<"-", "-", "-", "-", "-">>

\* the label 'CERTIFICATE'
CertificateLabel == <<"C", "E", "R", "T", "I", "F", "I", "C", "A", "T", "E">>

\* KeyVaultClient.convertToPem as text: the base64 of the bytes in lines of 64 characters
\* between the BEGIN and END lines
convertToPemText(derData, type) ==
  LET base64 == toBase64(derData)
      pieces == match64(base64)
      pem == IF pieces = <<>> THEN base64 ELSE join(pieces, "\n")
  IN  Dashes \o <<"B", "E", "G", "I", "N", " ">> \o type \o Dashes \o <<"\n">>
        \o pem \o <<"\n">>
        \o Dashes \o <<"E", "N", "D", " ">> \o type \o Dashes

\* the value of a base64 character
SextetValue(c) == (CHOOSE i \in 1..Len(Alphabet) : Alphabet[i] = c) - 1

\* base64 decoding: four characters become three bytes, a last group that ends in "=" or
\* "==" two bytes or one
RECURSIVE fromBase64(_)
fromBase64(text) ==
  IF Len(text) < 4 THEN <<>>
  ELSE LET v(i) == SextetValue(text[i])
           rest == fromBase64(SubSeq(text, 5, Len(text)))
       IN  IF text[3] = "="
           THEN << (v(1) * 64 + v(2)) \div 16 >> \o rest
           ELSE IF text[4] = "="
           THEN LET n == v(1) * 4096 + v(2) * 64 + v(3)
                IN  << n \div 1024, (n \div 4) % 256 >> \o rest
           ELSE LET n == v(1) * 262144 + v(2) * 4096 + v(3) * 64 + v(4)
                IN  << n \div 65536, (n \div 256) % 256, n % 256 >> \o rest

IsWhitespace(c) == c \in {" ", "\n", "\r", "\t"}

IsFramingLine(line) == Len(line) >= Len(Dashes) /\ SubSeq(line, 1, Len(Dashes)) = Dashes

\* pemToDer: the BEGIN and END lines and all whitespace stripped, the rest decoded
pemToDer(pem) ==
  LET lines == SelectSeq(Split(pem, "\n"), LAMBDA line : ~IsFramingLine(line))
      body == SelectSeq(join(lines, "\n"), LAMBDA c : ~IsWhitespace(c))
  IN  fromBase64(body)

\* byte values, and the lengths around one and two full lines of base64 (48 and 96 bytes)
ByteValues == {0, 77, 255}
LongLengths == {47, 48, 49, 95, 96, 97}

\* the byte sequences converted: every short one, and one of each long length
DerInputs ==
  SeqsUpTo(ByteValues, MaxBytes)
    \cup {[i \in 1..n |-> (i * 37 + 11) % 256] : n \in LongLengths}

\* convertToPem(derData, 'CERTIFICATE'), called with any bytes
ConvertToPem ==
  /\ chainOp = NoChainOp
  /\ \E derData \in DerInputs :
       chainOp' = [op |-> "convertToPem",
                   derData |-> derData,
                   outcome |-> convertToPemText(derData, CertificateLabel)]
  /\ UNCHANGED <<issuanceVars, nextKey, now, builds>>

PemNext ==
  \/ ConvertToPem
  \/ ChainReturn

PemSpec == Init /\ [][PemNext]_vars

\* ------------------------------------------------------- PEM text: claims

\* C20: for every byte sequence x, the PEM text convertToPem makes of x, with the BEGIN and
\* END lines and all whitespace stripped and the rest base64-decoded, is x again.
C20_PemRoundTrip ==
  ChainOpIs("convertToPem") => pemToDer(chainOp.outcome) = chainOp.derData

\* 49 bytes converted: neither a multiple of 3 nor of 48, their base64 on two lines
C20_Witness ==
  /\ ChainOpIs("convertToPem")
  /\ Len(chainOp.derData) = 49
  /\ Len(Split(chainOp.outcome, "\n")) = 4
  /\ chainOp.outcome[Len(chainOp.outcome) - 27] = "="

\* ------------------------------------------- distinguished names as text

MaxAttrs == 2      \* a subject string has at most this many attributes

\* the characters of an attribute name the certificate library stores
NameText(name) ==
  CASE name = "commonName" -> <<"c", "o", "m", "m", "o", "n", "N", "a", "m", "e">>
    [] name = "organizationName" ->
         <<"o", "r", "g", "a", "n", "i", "z", "a", "t", "i", "o", "n", "N", "a", "m", "e">>
    [] name = "organizationalUnitName" ->
         <<"o", "r", "g", "a", "n", "i", "z", "a", "t", "i", "o", "n", "a", "l",
           "U", "n", "i", "t", "N", "a", "m", "e">>
    [] name = "countryName" -> <<"c", "o", "u", "n", "t", "r", "y", "N", "a", "m", "e">>
    [] name = "stateOrProvinceName" ->
         <<"s", "t", "a", "t", "e", "O", "r", "P", "r", "o", "v", "i", "n", "c", "e",
           "N", "a", "m", "e">>
    [] name = "localityName" ->
         <<"l", "o", "c", "a", "l", "i", "t", "y", "N", "a", "m", "e">>
    [] name = "emailAddress" ->
         <<"e", "m", "a", "i", "l", "A", "d", "d", "r", "e", "s", "s">>
    [] OTHER -> <<"u", "n", "d", "e", "f", "i", "n", "e", "d">>

\* Array.prototype.join with the separator ', '
RECURSIVE joinCommaSpace(_)
joinCommaSpace(pieces) ==
  IF Len(pieces) = 0 THEN <<>>
  ELSE IF Len(pieces) = 1 THEN pieces[1]
  ELSE pieces[1] \o <<",", " ">> \o joinCommaSpace(Tail(pieces))

\* CertificateChainBuilder.distinguishedNameToString: name=value of every field
distinguishedNameToString(dn) ==
  joinCommaSpace([i \in 1..Len(dn) |-> NameText(dn[i].name) \o <<"=">> \o dn[i].value])

\* CertificateChainBuilder.extractCertificateInfo, the subject it reports
extractedSubject(cert) == distinguishedNameToString(cert.subject)

\* the recognized attribute types, as written in a subject string
TypeTexts == {<<"C", "N">>, <<"O">>, <<"O", "U">>, <<"C">>, <<"S", "T">>, <<"L">>, <<"E">>}

AttributeValues == {<<"a">>, <<"x", "y">>}

AttributeTexts == {type \o <<"=">> \o value : type \in TypeTexts, value \in AttributeValues}

\* the valid subject strings: one to MaxAttrs attributes TYPE=value joined with commas
DnStrings ==
  {join(parts, ",") : parts \in SeqsUpTo(AttributeTexts, MaxAttrs) \ {<<>>}}

\* a certificate is given the parsed subject, and its subject is formatted back
FormatSubject ==
  /\ chainOp = NoChainOp
  /\ \E subject \in DnStrings :
       LET cert == [subject |-> setAttributes(parseSubject(subject))]
       IN  chainOp' = [op |-> "formatSubject",
                       subject |-> subject,
                       outcome |-> extractedSubject(cert)]
  /\ UNCHANGED <<issuanceVars, nextKey, now, builds>>

SubjectNext ==
  \/ FormatSubject
  \/ ChainReturn

SubjectSpec == Init /\ [][SubjectNext]_vars

\* ------------------------------------------- distinguished names as text: claims

\* C21: for every valid subject string over the recognized types, parsing it and
\* formatting the parsed name back gives a string that denotes the same name: parsed
\* again it has the same attributes, with the same types and values, in the same order.
C21_ParseFormatRoundTrip ==
  ChainOpIs("formatSubject") =>
    parseSubject(chainOp.outcome) = parseSubject(chainOp.subject)

\* a subject string whose formatted form parses to nothing
C21_FormattedNameUnrecognized ==
  /\ ChainOpIs("formatSubject")
  /\ parseSubject(chainOp.subject) # <<>>
  /\ parseSubject(chainOp.outcome) = <<>>

\* ------------------------------------------- KeyVaultClient.createCredential

\* an optional boolean of AuthOptions: absent, true or false
OptionalBooleans == {"undefined", "true", "false"}

Truthy(flag) == flag = "true"

\* the AuthOptions a caller can pass; the command line sets useManagedIdentity and
\* useClientSecret to true or false and leaves the rest out, the examples set one flag
AuthOptionsGiven ==
  [useDefaultCredential : OptionalBooleans,
   useManagedIdentity : OptionalBooleans,
   useClientSecret : OptionalBooleans,
   useEnvironmentCredential : {"undefined", "true"},
   useAzureCliCredential : {"undefined", "true"},
   useAzurePowerShellCredential : {"undefined", "true"},
   useVisualStudioCodeCredential : {"undefined", "true"},
   useCertificate : {"undefined", "true"}]

\* no AuthOptions passed
NoAuthOptions == [undefined |-> TRUE]

\* the KeyVaultConfig fields createCredential reads: given or not
KeyVaultConfigs ==
  [clientSecret : BOOLEAN, tenantId : BOOLEAN, clientId : BOOLEAN, certificatePath : BOOLEAN]

\* KeyVaultClient.createCredential: the class of the credential it constructs
createCredential(authOptions, config) ==
  IF authOptions = NoAuthOptions THEN "DefaultAzureCredential"
  ELSE IF authOptions.useDefaultCredential # "false" THEN "DefaultAzureCredential"
  ELSE IF Truthy(authOptions.useManagedIdentity) THEN "ManagedIdentityCredential"
  ELSE IF Truthy(authOptions.useClientSecret)
          /\ config.clientSecret /\ config.tenantId /\ config.clientId
  THEN "ClientSecretCredential"
  ELSE IF Truthy(authOptions.useEnvironmentCredential) THEN "EnvironmentCredential"
  ELSE IF Truthy(authOptions.useAzureCliCredential) THEN "AzureCliCredential"
  ELSE IF Truthy(authOptions.useAzurePowerShellCredential) THEN "AzurePowerShellCredential"
  ELSE IF Truthy(authOptions.useVisualStudioCodeCredential) THEN "VisualStudioCodeCredential"
  ELSE IF Truthy(authOptions.useCertificate)
          /\ config.certificatePath /\ config.tenantId /\ config.clientId
  THEN "ClientCertificateCredential"
  ELSE "DefaultAzureCredential"

\* new KeyVaultClient(config, authOptions): both clients get the credential created
Construct ==
  /\ chainOp = NoChainOp
  /\ \E config \in KeyVaultConfigs, authOptions \in AuthOptionsGiven \cup {NoAuthOptions} :
       chainOp' = [op |-> "construct",
                   config |-> config,
                   authOptions |-> authOptions,
                   outcome |-> createCredential(authOptions, config)]
  /\ UNCHANGED <<issuanceVars, nextKey, now, builds>>

CredentialNext ==
  \/ Construct
  \/ ChainReturn

CredentialSpec == Init /\ [][CredentialNext]_vars

\* ------------------------------------------- createCredential: claims

\* the flags of AuthOptions that select a method, and the credential of each
MethodFlags ==
  {"useManagedIdentity", "useClientSecret", "useEnvironmentCredential",
   "useAzureCliCredential", "useAzurePowerShellCredential",
   "useVisualStudioCodeCredential", "useCertificate"}

\* the caller set this one flag to true and nothing else (as the examples do: the
\* other flags, useDefaultCredential among them, are absent or false)
SelectsOnly(authOptions, flag) ==
  /\ authOptions # NoAuthOptions
  /\ authOptions[flag] = "true"
  /\ authOptions.useDefaultCredential = "undefined"
  /\ \A other \in MethodFlags \ {flag} : authOptions[other] # "true"

\* C22: a client constructed with AuthOptions that select managed identity, the Azure
\* CLI or the environment (that flag true, useDefaultCredential not given) authenticates
\* with that method's credential, not with DefaultAzureCredential.
C22_SelectedCredentialUsed ==
  ChainOpIs("construct") =>
    /\ SelectsOnly(chainOp.authOptions, "useManagedIdentity")
         => chainOp.outcome = "ManagedIdentityCredential"
    /\ SelectsOnly(chainOp.authOptions, "useAzureCliCredential")
         => chainOp.outcome = "AzureCliCredential"
    /\ SelectsOnly(chainOp.authOptions, "useEnvironmentCredential")
         => chainOp.outcome = "EnvironmentCredential"

\* a client constructed with { useManagedIdentity: true } alone holds the default credential
C22_ManagedIdentityIgnored ==
  /\ ChainOpIs("construct")
  /\ SelectsOnly(chainOp.authOptions, "useManagedIdentity")
  /\ chainOp.outcome = "DefaultAzureCredential"

\* ------------------------------------------- issuance under an issuer already stored

\* a key pair made before the behaviour starts
StoredKey == 1

\* a root CA that the Key Vault holds before any call: made by an earlier createRootCA
StoredRoot ==
  rootCertificate(issuanceConfig(<<"n", "1">>, <<"C", "N", "=", "R">>), StoredKey, 0, 0)

StoredRootData ==
  [certificate |-> certificateToPem(StoredRoot), privateKey |-> privateKeyToPem(StoredKey)]

\* the client is constructed against a Key Vault that holds the root under the first name
StoredInit ==
  /\ store = [n \in Names |-> IF n = <<"n", "1">> THEN importBlob(StoredRootData) ELSE NoEntry]
  /\ imported = [n \in Names |-> IF n = <<"n", "1">> THEN StoredRootData ELSE NoEntry]
  /\ pc = [p \in Procs |-> "idle"]
  /\ call = [p \in Procs |-> NoCall]
  /\ local = [p \in Procs |-> NoLocal]
  /\ result = [p \in Procs |-> NoResult]
  /\ nextKey = FirstKey
  /\ calls = 0
  /\ now = 0
  /\ builds = 0
  /\ chainOp = NoChainOp
  /\ fields = ConstructedFields

\* the requests of the callers: a root under the name of the stored root, a certificate
\* issued under the second name by the CA of any name (the stored root, or a name with no
\* entry)
StoredRootRequests == {issuanceConfig(<<"n", "1">>, <<"C", "N", "=", "R">>)}

StoredIssuedRequests ==
  {issuedConfig(<<"n", "2">>, <<"c", "n", "=", "i", ",", " ", "O", "=", "x">>, issuerCA) :
     issuerCA \in Names}

StoredNext ==
  \E p \in Procs :
       \/ StartRootCA(p, StoredRootRequests)
       \/ StartIntermediateCA(p, StoredIssuedRequests)
       \/ StartEndEntityCertificate(p, StoredIssuedRequests)
       \/ GetCertificate(p)
       \/ GetSecret(p)
       \/ Import(p)

StoredSpec == StoredInit /\ [][StoredNext]_vars

\* ------------------------------------------- a hierarchy under the stored root

HierarchySubjects ==
  { <<"c", "n", "=", "i", ",", " ", "O", "=", "x">>, <<"C", "N", "=", "L">> }

\* the requests of the callers: a certificate issued under any name by the CA of any name
HierarchyRequests ==
  {issuedConfig(name, subject, issuerCA) :
     name \in Names, subject \in HierarchySubjects, issuerCA \in Names}

HierarchyNext ==
  \E p \in Procs :
       \/ StartIntermediateCA(p, HierarchyRequests)
       \/ StartEndEntityCertificate(p, HierarchyRequests)
       \/ GetCertificate(p)
       \/ GetSecret(p)
       \/ Import(p)

HierarchySpec == StoredInit /\ [][HierarchyNext]_vars

\* ------------------------------------------- the awaits of a call: claims

\* where a call stands while it awaits an answer of the Store
StorePcs == {"getCertificate", "getSecret", "import"}

\* the answers of the Store a call has received so far
StoreRepliesHeld(p) ==
  DOMAIN local[p] \cap {"getCertificate", "getSecret", "importCertificate"}

\* C23: a call awaits the Store at no more than one point (a call that awaits the Store
\* has had no answer of the Store before), so that no other caller's Store access falls
\* between two Store accesses of the call: when getSecret is asked, the entry under
\* issuerCA is still the one getCertificate answered from.
C23_SingleSuspensionPoint ==
  \A p \in Procs :
    /\ pc[p] \in StorePcs => StoreRepliesHeld(p) = {}
    /\ pc[p] = "getSecret" =>
         /\ store[call[p].config.issuerCA] # NoEntry
         /\ certificateFromPem(store[call[p].config.issuerCA].certificate)
              = local[p].getCertificate.cer

\* a call awaits its third answer of the Store (the import, after getCertificate and
\* getSecret), and between its first two another caller's import replaced the issuer
C23_ImportBetweenAccesses ==
  \E p \in Procs :
    /\ pc[p] = "import"
    /\ StoreRepliesHeld(p) = {"getCertificate", "getSecret"}
    /\ "value" \in DOMAIN local[p].getSecret
    /\ "certificate" \in DOMAIN local[p].getSecret.value
    /\ certificateFromPem(local[p].getSecret.value.certificate) # local[p].getCertificate.cer

\* ------------------------------------------- issuer certificate and issuer key: claims

\* the authorityKeyIdentifier extension of a certificate
AuthorityKeyIdentifier(cert) ==
  cert.extensions[CHOOSE i \in 1..Len(cert.extensions) :
                    cert.extensions[i].name = "authorityKeyIdentifier"]

\* C24: a certificate built by createIntermediateCA or createEndEntityCertificate carries
\* in its authorityKeyIdentifier the serial number of the issuer certificate the call
\* downloaded, and is signed by the private key that belongs to that issuer certificate:
\* certificate and key come from the same entry of the Store under issuerCA.
C24_SignedByReferencedIssuer ==
  \A p \in Procs :
    (call[p] # NoCall /\ call[p].op \in IssuedOps /\ "cert" \in DOMAIN local[p]) =>
      /\ AuthorityKeyIdentifier(local[p].cert).serialNumber = local[p].issuerCert.serialNumber
      /\ local[p].cert.signedBy = local[p].issuerCert.publicKey
      /\ local[p].getSecret.value.certificate = certificateToPem(local[p].issuerCert)

\* a certificate is built that references the stored root and is signed by the key of the
\* root another caller imported over it in the meantime
C24_SignedByOtherVersion ==
  \E p \in Procs :
    /\ call[p] # NoCall
    /\ call[p].op \in IssuedOps
    /\ "cert" \in DOMAIN local[p]
    /\ local[p].issuerCert = StoredRoot
    /\ local[p].cert.signedBy >= FirstKey
    /\ local[p].cert.signedBy # local[p].issuerCert.publicKey

\* ------------------------------------------- failure before the import: claims

\* C25: a step by which a createIntermediateCA or createEndEntityCertificate call fails
\* before its import (at getCertificate: the issuer is missing or the Store fails; at
\* getSecret: the issuer's private key is unavailable or unparsable) leaves the Store as
\* it was: nothing is created or overwritten under config.name or under config.issuerCA.
C25_FailureBeforeImportLeavesStore ==
  [][\A p \in Procs :
       (pc[p] \in {"getCertificate", "getSecret"} /\ pc'[p] = "done")
         => (store' = store /\ imported' = imported)]_vars

\* a call has failed before its import because the issuer's private key could not be read,
\* after another call's import succeeded; the Store holds under the failed call's name
\* what was last imported there
C25_Witness ==
  /\ \E q \in Procs : Succeeded(q)
  /\ \E p \in Procs :
       /\ IssuerKeyUnavailable(p)
       /\ "returned" \in DOMAIN result[p]
       /\ ~result[p].returned.success
       /\ "importCertificate" \notin DOMAIN local[p]
       /\ store[call[p].config.name] # NoEntry
       /\ store[call[p].config.name] = importBlob(imported[call[p].config.name])

\* ------------------------------------- processCertificateChain, result and effect: claims

\* where a processCertificateChain call stands while it awaits an answer of the Store
ProcessPcs == {"downloadSource", "getCertificateInfo", "uploadChained"}

\* C26: processCertificateChain never throws, and its result matches its effect on the
\* Store.  A step that ends the call leaves a returned result; if that result has
\* success = true the step is the import of the chained certificate under
\* targetCertificateName taking effect, and it is the only import of the call: every
\* earlier step of the call, and every step that ends it with success = false, leaves the
\* Store as it was.
C26_ResultMatchesEffect ==
  [][\A p \in Procs :
       (/\ call[p] # NoCall
        /\ call[p].op = "processCertificateChain"
        /\ pc[p] \in ProcessPcs
        /\ pc'[p] # pc[p])
         => LET target == call[p].config.targetCertificateName
                ended == pc'[p] = "done"
                success == ended /\ result'[p].returned.success
            IN  /\ ended => "returned" \in DOMAIN result'[p]
                /\ success =>
                     /\ pc[p] = "uploadChained"
                     /\ store'[target] = importBlob(local[p].chainedCertificate)
                     /\ imported'[target] = local[p].chainedCertificate
                     /\ \A n \in Names \ {target} :
                          store'[n] = store[n] /\ imported'[n] = imported[n]
                /\ ~success => (store' = store /\ imported' = imported)]_vars

\* a call returned success after importing the chained certificate under a target name
\* other than the source, and the source entry is what it was
C26_Witness ==
  \E p \in Procs :
    /\ call[p] # NoCall /\ call[p].op = "processCertificateChain"
    /\ pc[p] = "done"
    /\ result[p].returned.success
    /\ call[p].config.targetCertificateName # call[p].config.sourceCertificateName
    /\ store[call[p].config.targetCertificateName] = importBlob(local[p].chainedCertificate)
    /\ store[call[p].config.sourceCertificateName].certificate
         = local[p].sourceCertificate.certificate

\* a call returned success = false because the Store refused the import, and the target
\* name holds no entry
C26_UploadRefused ==
  \E p \in Procs :
    /\ call[p] # NoCall /\ call[p].op = "processCertificateChain"
    /\ pc[p] = "done"
    /\ local[p].steps = DocumentedSteps
    /\ ~result[p].returned.success
    /\ store[call[p].config.targetCertificateName] = NoEntry

\* a call has failed because its issuer is missing, and the Store holds the stored root as
\* before
C25_IssuerMissing ==
  \E p \in Procs :
    /\ IssuerNotFound(p)
    /\ "returned" \in DOMAIN result[p]
    /\ ~result[p].returned.success
    /\ store[<<"n", "1">>] = importBlob(StoredRootData)
    /\ store[call[p].config.name] = NoEntry

\* ------------------------------------------- an issued hierarchy as a chain: claims

\* caller p's successful call issued an intermediate CA under the stored root, caller q's
\* successful call issued an end-entity certificate under that intermediate CA, and the
\* three subjects differ
IssuedHierarchy(p, q) ==
  /\ Succeeded(p) /\ call[p].op = "createIntermediateCA"
  /\ local[p].issuerCert = StoredRoot
  /\ Succeeded(q) /\ call[q].op = "createEndEntityCertificate"
  /\ local[q].issuerCert = IssuedCert(p)
  /\ IssuedCert(p).subject # StoredRoot.subject
  /\ IssuedCert(q).subject # StoredRoot.subject
  /\ IssuedCert(q).subject # IssuedCert(p).subject

\* C27: for a root issued by createRootCA, an intermediate CA issued under it and an
\* end-entity certificate issued under that intermediate, with pairwise different subjects
\* and the default validity, validateCertificateChain([leaf, intermediate, root]) returns
\* true right after issuance.
C27_IssuedHierarchyValidates ==
  \A p, q \in Procs :
    IssuedHierarchy(p, q) =>
      validateCertificateChain(<<IssuedCert(q), IssuedCert(p), StoredRoot>>, now)

\* a hierarchy of three is issued, each certificate signed by the key of the one above it
\* and within its validity window, and its chain does not validate
C27_IssuedHierarchyRejected ==
  \E p, q \in Procs :
    /\ IssuedHierarchy(p, q)
    /\ IssuedCert(q).signedBy = IssuedCert(p).publicKey
    /\ IssuedCert(p).signedBy = StoredRoot.publicKey
    /\ \A cert \in {IssuedCert(q), IssuedCert(p), StoredRoot} : WithinValidity(cert, now)
    /\ ~validateCertificateChain(<<IssuedCert(q), IssuedCert(p), StoredRoot>>, now)

\* ------------------------------------------- serial numbers: claims

\* caller p's call has built a certificate
Built(p) == call[p] # NoCall /\ "cert" \in DOMAIN local[p]

\* C28: every certificate built gets a serial number other than zero, and no two
\* certificates built in one behaviour share a serial number.
C28_SerialsNonZeroAndUnique ==
  /\ \A p \in Procs : Built(p) => local[p].cert.serialNumber # 0
  /\ \A p, q \in Procs :
       (p # q /\ Built(p) /\ Built(q))
         => local[p].cert.serialNumber # local[q].cert.serialNumber

\* two calls have built different certificates with the same serial number, not zero
C28_SharedSerial ==
  \E p, q \in Procs :
    /\ p # q /\ Built(p) /\ Built(q)
    /\ local[p].cert.publicKey # local[q].cert.publicKey
    /\ local[p].cert.serialNumber = local[q].cert.serialNumber
    /\ local[p].cert.serialNumber # 0

\* a call has built a certificate with serial number zero
C28_ZeroSerial ==
  \E p \in Procs : Built(p) /\ local[p].cert.serialNumber = 0

\* ------------------------------------------- console output

\* one call of console.log, console.warn or console.error: the text and the value printed
\* after it
ConsoleLine(level, text, value) == [level |-> level, text |-> text, value |-> value]

NoValue == [none |-> TRUE]

\* what KeyVaultClient.extractPrivateKeyFromBundle writes to the console
extractPrivateKeyConsole(bundle) ==
  IF "unparsable" \in DOMAIN bundle
  THEN <<ConsoleLine("error", "Error extracting private key from bundle:",
                     [error |-> "unparsable"])>>
  ELSE IF extractPrivateKeyFromBundle(bundle) # Undefined
  THEN <<ConsoleLine("log", "Successfully extracted private key in PEM format", NoValue)>>
  ELSE <<ConsoleLine("warn", "No private key found in the certificate bundle", NoValue)>>

\* what KeyVaultClient.getPrivateKeyFromSecret writes to the console, given the store's answer
getPrivateKeyConsole(reply) ==
  IF "rejected" \in DOMAIN reply
  THEN <<ConsoleLine("error", "Error getting private key from secret:",
                     [error |-> reply.rejected])>>
  ELSE IF "value" \in DOMAIN reply THEN extractPrivateKeyConsole(reply.value)
  ELSE <<>>

\* what KeyVaultClient.downloadCertificateWithPrivateKey writes to the console once
\* getSecret has answered
downloadConsole(reply) ==
  getPrivateKeyConsole(reply)
    \o (IF getPrivateKeyFromSecret(reply) # Undefined
        THEN <<ConsoleLine("log", "Private key:", getPrivateKeyFromSecret(reply))>>
        ELSE <<>>)

\* ------------------------------------------- console output: claims

\* the answer of getSecret with key pair k in place of the private key it carries, if any
WithPrivateKey(reply, k) ==
  IF "value" \in DOMAIN reply /\ "privateKey" \in DOMAIN reply.value
  THEN [value |-> [privateKey |-> privateKeyToPem(k),
                   certificate |-> reply.value.certificate]]
  ELSE reply

\* C29: no private key is written to the console: what a call that downloaded an issuer's
\* certificate and key has written is the same whatever the value of the private key.
C29_ConsoleIndependentOfKey ==
  \A p \in Procs :
    (call[p] # NoCall /\ "getSecret" \in DOMAIN local[p]) =>
      \A k \in {StoredKey, FirstKey} :
        downloadConsole(local[p].getSecret)
          = downloadConsole(WithPrivateKey(local[p].getSecret, k))

\* a call has written the issuer's private key, as PEM, to the console
C29_PrivateKeyOnConsole ==
  \E p \in Procs :
    /\ call[p] # NoCall
    /\ "issuerData" \in DOMAIN local[p]
    /\ \E i \in 1..Len(downloadConsole(local[p].getSecret)) :
         /\ downloadConsole(local[p].getSecret)[i].text = "Private key:"
         /\ downloadConsole(local[p].getSecret)[i].value = local[p].issuerData.privateKey
         /\ IsPrivateKeyPem(local[p].issuerData.privateKey)

\* ------------------------------------------------------- PEM lines: claims

\* the lines of a PEM text, and those between its first and its last line
PemLines(pem) == Split(pem, "\n")
BodyLines(pem) == SubSeq(PemLines(pem), 2, Len(PemLines(pem)) - 1)

BeginLine(type) == Dashes \o <<"B", "E", "G", "I", "N", " ">> \o type \o Dashes
EndLine(type) == Dashes \o <<"E", "N", "D", " ">> \o type \o Dashes

RECURSIVE Concat(_)
Concat(pieces) == IF pieces = <<>> THEN <<>> ELSE Head(pieces) \o Concat(Tail(pieces))

\* the text is a BEGIN line, body lines that together are the base64 of the bytes, every
\* one but the last of exactly 64 characters and none longer, and an END line
FramedInLines(pem, derData) ==
  /\ Len(PemLines(pem)) >= 2
  /\ PemLines(pem)[1] = BeginLine(CertificateLabel)
  /\ PemLines(pem)[Len(PemLines(pem))] = EndLine(CertificateLabel)
  /\ Concat(BodyLines(pem)) = toBase64(derData)
  /\ \A i \in 1..Len(BodyLines(pem)) :
       /\ Len(BodyLines(pem)[i]) <= LineLength
       /\ i < Len(BodyLines(pem)) => Len(BodyLines(pem)[i]) = LineLength

\* C30 as stated: for input of any length the output of convertToPem is the BEGIN line,
\* the base64 body in lines of exactly 64 characters except for a possibly shorter,
\* non-empty last line, and the END line; no body line is longer than 64 characters and
\* none is empty.
C30_BodyLinesNonEmpty ==
  ChainOpIs("convertToPem") =>
    /\ FramedInLines(chainOp.outcome, chainOp.derData)
    /\ \A i \in 1..Len(BodyLines(chainOp.outcome)) : Len(BodyLines(chainOp.outcome)[i]) > 0

\* C30 (amended): the output of convertToPem is the BEGIN line, the base64 body in lines of
\* exactly 64 characters except for a possibly shorter last line, and the END line, with no
\* body line longer than 64 characters; the last body line is non-empty for every input
\* but the empty one, for which the body is a single empty line.
C30_LinesOf64 ==
  ChainOpIs("convertToPem") =>
    /\ FramedInLines(chainOp.outcome, chainOp.derData)
    /\ chainOp.derData # <<>> =>
         \A i \in 1..Len(BodyLines(chainOp.outcome)) : Len(BodyLines(chainOp.outcome)[i]) > 0
    /\ chainOp.derData = <<>> => BodyLines(chainOp.outcome) = << <<>> >>

\* 97 bytes converted: two body lines of 64 characters and a last one of 4
C30_Witness ==
  /\ ChainOpIs("convertToPem")
  /\ Len(chainOp.derData) = 97
  /\ Len(BodyLines(chainOp.outcome)) = 3
  /\ Len(BodyLines(chainOp.outcome)[1]) = LineLength
  /\ Len(BodyLines(chainOp.outcome)[2]) = LineLength
  /\ Len(BodyLines(chainOp.outcome)[3]) = 4

\* no bytes converted: an empty line stands between the BEGIN and the END line
C30_EmptyBodyLine ==
  /\ ChainOpIs("convertToPem")
  /\ chainOp.derData = <<>>
  /\ PemLines(chainOp.outcome)
       = <<BeginLine(CertificateLabel), <<>>, EndLine(CertificateLabel)>>

====
